---- MODULE Spec2Model ----
(***************************************************************************)
(* A model of the binary asset decoding layer of new-yokosuka:             *)
(*   BinaryReader  (bounds-checked little-endian cursor),                  *)
(*   PvrDecoder    (PVR texture -> RGBA8),                                 *)
(*   Mt5Loader     (HRCM model: texture directory, node tree, meshes).     *)
(* Buffers are sequences of bytes (0..255); offset k of a buffer is        *)
(* element k+1 of the sequence.  Strings are sequences of char codes.      *)
(***************************************************************************)
EXTENDS Integers, Sequences, FiniteSets, TLC

VARIABLES
    rd,             \* BinaryReader under test: [buf, offset]
    rdOp,           \* last BinaryReader operation: [op, arg, pre, ret]
    pvrIn,          \* buffer handed to the last PvrDecoder
    pvrOut,         \* <<>>, or <<t>> once PvrDecoder.decode has returned t for pvrIn
    textureCache,   \* Mt5Loader.textureCache : slot -> texture
    globalVertices, \* Mt5Loader.globalVertices
    vertexOffset,   \* Mt5Loader.vertexOffset
    call,           \* the last Mt5Loader.load call: input, outcome, output, trace
    fn              \* the last call of a method on its own: [op, args, ret]

vars == <<rd, rdOp, pvrIn, pvrOut, textureCache, globalVertices, vertexOffset, call, fn>>

(***************************************************************************)
(* Arithmetic helpers for JavaScript's integer and typed-array operations. *)
(***************************************************************************)
Min(a, b) == IF a < b THEN a ELSE b
Max(a, b) == IF a > b THEN a ELSE b
Abs(a) == IF a < 0 THEN -a ELSE a

RECURSIVE Pow2(_)
Pow2(n) == IF n = 0 THEN 1 ELSE 2 * Pow2(n - 1)

\* bit i of the non-negative integer x, as JavaScript's (x >> i) & 1
Bit(x, i) == (x \div Pow2(i)) % 2

\* ArrayBuffer.prototype.slice(begin, end) for non-negative begin:
\* both ends are clamped to the buffer, an inverted range is empty
Slice(buf, begin, end) ==
    LET b == Min(begin, Len(buf))
        e == Min(Max(end, 0), Len(buf))
    IN  IF e <= b THEN <<>> ELSE SubSeq(buf, b + 1, e)

\* DataView.getUint8 / getUint16 / getUint32 (little-endian) at offset pos;
\* the callers establish that the bytes exist.  The model checker's integers
\* are 32-bit signed: the inputs keep the top byte of every unsigned 32-bit
\* field below 128, and a larger value stops the check instead of wrapping.
GetU8(buf, pos) == buf[pos + 1]
GetU16(buf, pos) == buf[pos + 1] + 256 * buf[pos + 2]
GetU32(buf, pos) ==
    buf[pos + 1] + 256 * buf[pos + 2] + 65536 * buf[pos + 3] + 16777216 * buf[pos + 4]
\* DataView.getInt16 / getInt32: the same bits read as two's complement
GetI16(buf, pos) ==
    LET u == GetU16(buf, pos) IN IF u >= 32768 THEN u - 65536 ELSE u
GetI32(buf, pos) ==
    buf[pos + 1] + 256 * buf[pos + 2] + 65536 * buf[pos + 3]
        + 16777216 * (IF buf[pos + 4] >= 128 THEN buf[pos + 4] - 256 ELSE buf[pos + 4])
\* DataView.getFloat32: a float is carried as [f32 |-> the four bytes of its
\* IEEE-754 pattern]; the number 0 that a failed read returns is a different value
GetF32(buf, pos) == [f32 |-> SubSeq(buf, pos + 1, pos + 4)]

(***************************************************************************)
(* BinaryReader.  A reader is [buf, offset]; an operation returns          *)
(* [r |-> the reader afterwards, v |-> the value returned].                *)
(***************************************************************************)
BinaryReader(buffer) == [buf |-> buffer, offset |-> 0]

size(r) == Len(r.buf)

canRead(r, len) == r.offset + len <= size(r)

AtEnd(r) == [r EXCEPT !.offset = size(r)]
Advance(r, n) == [r EXCEPT !.offset = r.offset + n]

\* readUInt32 with the overrun branch returning 0 without moving the cursor
readUInt32NoClamp(r) ==
    IF ~canRead(r, 4) THEN [r |-> r, v |-> 0]
    ELSE [r |-> Advance(r, 4), v |-> GetU32(r.buf, r.offset)]

readUInt32(r) ==
    IF ~canRead(r, 4) THEN [r |-> AtEnd(r), v |-> 0]
    ELSE [r |-> Advance(r, 4), v |-> GetU32(r.buf, r.offset)]

readInt32(r) ==
    IF ~canRead(r, 4) THEN [r |-> AtEnd(r), v |-> 0]
    ELSE [r |-> Advance(r, 4), v |-> GetI32(r.buf, r.offset)]

readUInt16(r) ==
    IF ~canRead(r, 2) THEN [r |-> AtEnd(r), v |-> 0]
    ELSE [r |-> Advance(r, 2), v |-> GetU16(r.buf, r.offset)]

readUInt16At(r, pos) ==
    IF pos + 2 > size(r) THEN 0 ELSE GetU16(r.buf, pos)

readUInt8(r) ==
    IF ~canRead(r, 1) THEN [r |-> AtEnd(r), v |-> 0]
    ELSE [r |-> Advance(r, 1), v |-> GetU8(r.buf, r.offset)]

readInt16(r) ==
    IF ~canRead(r, 2) THEN [r |-> AtEnd(r), v |-> 0]
    ELSE [r |-> Advance(r, 2), v |-> GetI16(r.buf, r.offset)]

readShort(r) == readInt16(r)
readUShort(r) == readUInt16(r)

readFloat32(r) ==
    IF ~canRead(r, 4) THEN [r |-> AtEnd(r), v |-> 0]
    ELSE [r |-> Advance(r, 4), v |-> GetF32(r.buf, r.offset)]

\* the Uint8Array view readBytes returns: its bytes, and byteOffset/backing buffer
\* length as `new DataView(id.buffer, id.byteOffset, 8)` later sees them
readBytes(r, len) ==
    LET actualLen == Min(len, size(r) - r.offset)
    IN  IF actualLen <= 0
        THEN [r |-> r, v |-> [bytes |-> <<>>, byteOffset |-> 0, backing |-> 0]]
        ELSE [r |-> Advance(r, actualLen),
              v |-> [bytes |-> SubSeq(r.buf, r.offset + 1, r.offset + actualLen),
                     byteOffset |-> r.offset, backing |-> size(r)]]

\* a readString that stops behind the zero byte instead of behind the field
RECURSIVE readStringToNul(_, _, _, _)
readStringToNul(r, len, i, str) ==
    IF i >= len THEN [r |-> r, v |-> str]
    ELSE IF ~canRead(r, 1) THEN [r |-> r, v |-> str]
    ELSE LET c == readUInt8(r)
         IN  IF c.v = 0
             THEN [r |-> c.r, v |-> str]
             ELSE readStringToNul(c.r, len, i + 1, Append(str, c.v))

RECURSIVE readStringFrom(_, _, _, _)
readStringFrom(r, len, i, str) ==
    IF i >= len THEN [r |-> r, v |-> str]
    ELSE IF ~canRead(r, 1) THEN [r |-> r, v |-> str]
    ELSE LET c == readUInt8(r)
         IN  IF c.v = 0
             THEN [r |-> Advance(c.r, len - i - 1), v |-> str]
             ELSE readStringFrom(c.r, len, i + 1, Append(str, c.v))

readString(r, len) == readStringFrom(r, len, 0, <<>>)

seek(r, pos) == [r EXCEPT !.offset = Max(0, Min(pos, size(r)))]

skip(r, len) == seek(r, r.offset + len)

tell(r) == r.offset

(***************************************************************************)
(* PvrDecoder.  A decoded texture is the record RawTexture builds:         *)
(* [width, height, data (RGBA8 bytes), hasAlpha, hasGradientAlpha].        *)
(***************************************************************************)
PVRT == <<80, 86, 82, 84>>

\* new Uint8Array(n): n zero bytes
Uint8Array(n) == [i \in 1..n |-> 0]

\* The stores a loop makes into an array are listed in program order as
\* <<index, value>> pairs.  StoreAll on a plain Array: a store past the end grows it.
StoreAllGrowing(arr, stores) ==
    LET top == Max(Len(arr), 1 + Max(0, LET ix == {stores[k][1] : k \in DOMAIN stores}
                                        IN  IF ix = {} THEN -1
                                            ELSE CHOOSE m \in ix : \A o \in ix : o <= m))
    IN  [i \in 1..(IF stores = <<>> THEN Len(arr) ELSE top) |->
            LET hits == {k \in DOMAIN stores : stores[k][1] = i - 1}
            IN  IF hits = {} THEN (IF i <= Len(arr) THEN arr[i] ELSE 0)
                ELSE stores[CHOOSE k \in hits : \A o \in hits : o <= k][2] % 256]

\* StoreAll on a Uint8Array: each element holds the value of the last store to its
\* index, modulo 256; a store outside the array is dropped (a typed array never grows)
StoreAll(arr, stores) ==
    [i \in 1..Len(arr) |->
        LET hits == {k \in DOMAIN stores : stores[k][1] = i - 1}
        IN  IF hits = {} THEN arr[i]
            ELSE stores[CHOOSE k \in hits : \A o \in hits : o <= k][2] % 256]

\* decodeColor with each channel widened to 0..255 by replicating its top bits
decodeColorWidened(v, format) ==
    LET w5(c) == c * 8 + c \div 4
        w6(c) == c * 4 + c \div 16
        w4(c) == c * 17
    IN  IF format = 0 THEN
            <<w5((v \div 1024) % 32), w5((v \div 32) % 32), w5(v % 32),
              IF Bit(v, 15) = 1 THEN 255 ELSE 0>>
        ELSE IF format = 1 THEN
            <<w5((v \div 2048) % 32), w6((v \div 32) % 64), w5(v % 32), 255>>
        ELSE IF format = 2 THEN
            <<w4((v \div 256) % 16), w4((v \div 16) % 16), w4(v % 16),
              w4((v \div 4096) % 16)>>
        ELSE <<255, 255, 255, 255>>

\* a decodeColor whose 4444 alpha comes from the low nibble
decodeColorAlphaLow(v, format) ==
    IF format = 0 THEN
        <<((v \div 1024) % 32) * 8, ((v \div 32) % 32) * 8, (v % 32) * 8,
          IF Bit(v, 15) = 1 THEN 255 ELSE 0>>
    ELSE IF format = 1 THEN
        <<((v \div 2048) % 32) * 8, ((v \div 32) % 64) * 4, (v % 32) * 8, 255>>
    ELSE IF format = 2 THEN
        <<((v \div 256) % 16) * 16, ((v \div 16) % 16) * 16, (v % 16) * 16,
          (v % 16) * 16>>
    ELSE <<255, 255, 255, 255>>

\* a decodeColor that takes the 565 word as blue, green, red from the top
decodeColorBlueFirst(v, format) ==
    IF format = 0 THEN
        <<((v \div 1024) % 32) * 8, ((v \div 32) % 32) * 8, (v % 32) * 8,
          IF Bit(v, 15) = 1 THEN 255 ELSE 0>>
    ELSE IF format = 1 THEN
        <<(v % 32) * 8, ((v \div 32) % 64) * 4, ((v \div 2048) % 32) * 8, 255>>
    ELSE IF format = 2 THEN
        <<((v \div 256) % 16) * 16, ((v \div 16) % 16) * 16, (v % 16) * 16,
          ((v \div 4096) % 16) * 16>>
    ELSE <<255, 255, 255, 255>>

decodeColor(v, format) ==
    IF format = 0 THEN
        <<((v \div 1024) % 32) * 8, ((v \div 32) % 32) * 8, (v % 32) * 8,
          IF Bit(v, 15) = 1 THEN 255 ELSE 0>>
    ELSE IF format = 1 THEN
        <<((v \div 2048) % 32) * 8, ((v \div 32) % 64) * 4, (v % 32) * 8, 255>>
    ELSE IF format = 2 THEN
        <<((v \div 256) % 16) * 16, ((v \div 16) % 16) * 16, (v % 16) * 16,
          ((v \div 4096) % 16) * 16>>
    ELSE <<255, 255, 255, 255>>

\* the number of bit positions the untwiddle loop visits
TwiddleBits == 10

\* res |= bit: every iteration sets two positions no other iteration sets,
\* so the bitwise OR is the sum
RECURSIVE untwiddleFrom(_, _, _, _)
untwiddleFrom(x, y, i, res) ==
    IF i >= TwiddleBits THEN res
    ELSE untwiddleFrom(x, y, i + 1,
            res + (IF Bit(x, i) = 1 THEN Pow2(2 * i + 1) ELSE 0)
                + (IF Bit(y, i) = 1 THEN Pow2(2 * i) ELSE 0))

untwiddle(x, y) == untwiddleFrom(x, y, 0, 0)

codebookSize == 256

\* the value of the k-th (k = 0, 1, ...) of consecutive readUInt16 calls that
\* start at reader r: a call that overruns leaves the cursor at the end of the
\* buffer, so every call after it overruns too and returns 0
readUInt16Nth(r, k) ==
    IF r.offset + 2 * k + 2 <= size(r) THEN GetU16(r.buf, r.offset + 2 * k) ELSE 0

\* the reader after n consecutive readUInt16 calls
readUInt16Times(r, n) ==
    IF n = 0 THEN r
    ELSE IF r.offset + 2 * n <= size(r) THEN Advance(r, 2 * n) ELSE AtEnd(r)

\* the codebook loop: codebookSize entries of four consecutive readUInt16
readCodebook(r) ==
    [r |-> readUInt16Times(r, 4 * codebookSize),
     v |-> [i \in 1..codebookSize |->
              <<readUInt16Nth(r, 4 * (i - 1)), readUInt16Nth(r, 4 * (i - 1) + 1),
                readUInt16Nth(r, 4 * (i - 1) + 2), readUInt16Nth(r, 4 * (i - 1) + 3)>>]]

\* the byte the block loop reads for block (x, y): seek(dataStart + twiddledIdx),
\* then readUInt8
vqCodeIdx(r, dataStart, x, y) == readUInt8(seek(r, dataStart + untwiddle(x, y))).v

\* the same stores with the four colours of a block laid out column by column
vqStoresColumnMajor(r, codebook, dataStart, width, height, colorFormat) ==
    LET nbx == (width + 1) \div 2
        nby == (height + 1) \div 2
    IN  [k \in 1..(nbx * nby * 16) |->
            LET n == (k - 1) \div 16
                i == ((k - 1) % 16) \div 4
                c == (k - 1) % 4
                x == n % nbx
                y == n \div nbx
                bx == i \div 2
                by == i % 2
                codeIdx == vqCodeIdx(r, dataStart, x, y)
                destIdx == ((y * 2 + by) * width + (x * 2 + bx)) * 4
            IN  IF codeIdx >= Len(codebook) THEN <<-1, 0>>
                ELSE <<destIdx + c, decodeColor(codebook[codeIdx + 1][i + 1], colorFormat)[c + 1]>>]

\* The loops over y < height/2 and x < width/2 (real-valued halves: x ranges over
\* the integers with 2x < width) and over i < 4 make, in program order, the stores
\* rgba[destIdx + c] = decodeColor(block[i])[c].  Store k (k = 1, 2, ...) belongs to
\* block n = (x, y), entry i and channel c; a block whose index byte is not below
\* the codebook's length is skipped, which stores nothing (index -1 stands for that).
vqStores(r, codebook, dataStart, width, height, colorFormat) ==
    LET nbx == (width + 1) \div 2
        nby == (height + 1) \div 2
    IN  [k \in 1..(nbx * nby * 16) |->
            LET n == (k - 1) \div 16
                i == ((k - 1) % 16) \div 4
                c == (k - 1) % 4
                x == n % nbx
                y == n \div nbx
                bx == i % 2
                by == i \div 2
                codeIdx == vqCodeIdx(r, dataStart, x, y)
                destIdx == ((y * 2 + by) * width + (x * 2 + bx)) * 4
            IN  IF codeIdx >= Len(codebook) THEN <<-1, 0>>
                ELSE <<destIdx + c, decodeColor(codebook[codeIdx + 1][i + 1], colorFormat)[c + 1]>>]

\* the block loop of decodeVQ, cb being the codebook read and the reader after it
decodeVQBlocks(cb, width, height, colorFormat) ==
    StoreAll(Uint8Array(width * height * 4),
             vqStores(cb.r, cb.v, tell(cb.r), width, height, colorFormat))

decodeVQ(r, width, height, colorFormat) ==
    decodeVQBlocks(readCodebook(r), width, height, colorFormat)

\* The loops over y < height and x < width make, in program order, the stores
\* rgba[destIdx + c] = decodeColor(color)[c] for pixel p = (x, y) and channel c.
rawStores(r, width, height, colorFormat, isTwiddled) ==
    [k \in 1..(width * height * 4) |->
        LET p == (k - 1) \div 4
            c == (k - 1) % 4
            x == p % width
            y == p \div width
            srcIdx == IF isTwiddled THEN untwiddle(x, y) ELSE y * width + x
            color == readUInt16At(r, 8 + srcIdx * 2)
        IN  <<(y * width + x) * 4 + c, decodeColor(color, colorFormat)[c + 1]>>]

decodeRaw(r, width, height, colorFormat, isTwiddled) ==
    StoreAll(Uint8Array(width * height * 4),
             rawStores(r, width, height, colorFormat, isTwiddled))

\* decode after the header fields have been read, r being the reader behind them.
\* decodeVQ and decodeRaw always return an array, so the null return is never taken.
decodePixels(r, colorFormat, dataFormat, width, height) ==
    [width |-> width, height |-> height,
     data |-> IF dataFormat \in {3, 4}
              THEN decodeVQ(r, width, height, colorFormat)
              ELSE decodeRaw(r, width, height, colorFormat,
                             dataFormat \in {1, 2, 3, 4, 17}),
     hasAlpha |-> colorFormat \in {0, 2},
     hasGradientAlpha |-> colorFormat = 2]

\* decode from the header on: pixel format, data format, `reader.offset += 2`
\* (an assignment, not a seek: it is not clamped), width, height
decodeHeader(r) ==
    LET colorFormat == readUInt8(r)
        dataFormat == readUInt8(colorFormat.r)
        width == readUInt16(Advance(dataFormat.r, 2))
        height == readUInt16(width.r)
    IN  decodePixels(height.r, colorFormat.v, dataFormat.v, width.v, height.v)

\* the reader after the check for a 'PVRT' tag, whose read returned sig
skipWrapper(sig) == IF sig.v = PVRT THEN skip(sig.r, 4) ELSE seek(sig.r, 0)

\* PvrDecoder.decode of a fresh decoder over `buffer`
decode(buffer) == decodeHeader(skipWrapper(readString(BinaryReader(buffer), 4)))

(***************************************************************************)
(* Mt5Loader.  textureCache (a Map) is a function slot -> texture; an       *)
(* optional value is <<>> (null/undefined) or <<x>>.  A step that the code  *)
(* leaves by an exception or never leaves is reported in a status field:    *)
(* "ok", "RangeError", "diverges".                                          *)
(***************************************************************************)
HRCM == <<72, 82, 67, 77>>
TEXD == <<84, 69, 88, 68>>
TEXN == <<84, 69, 88, 78>>
NAME == <<78, 65, 77, 69>>

\* 0x1000000, the ceiling on a directory block's size and on a pack record's length
SizeCeiling == 16777216

\* Map.prototype.has / Map.prototype.set
MapHas(m, k) == k \in DOMAIN m
MapSet(m, k, v) == [x \in (DOMAIN m) \cup {k} |-> IF x = k THEN v ELSE m[x]]

\* The scan of an embedded-image block for a nested 'PVRT' tag:
\*   while (tell < nodeEnd - 4) { if (readString(4) === "PVRT") {...; break}  skip(-3) }
\* The loop body is a function of the cursor alone, so a cursor position met a
\* second time at the loop head means the loop never ends.
\* Returns the reader, the decoded texture if a tag was found, and the status.
RECURSIVE texnScan(_, _, _)

\* the branch taken on a 'PVRT' tag, pvrLen being the length word read after it
texnImage(pvrLen) ==
    [r |-> pvrLen.r,
     tex |-> <<decode(Slice(pvrLen.r.buf, tell(pvrLen.r), tell(pvrLen.r) + pvrLen.v))>>,
     status |-> "ok"]

\* one iteration, s being what readString(4) returned at cursor position `at`
texnScanStep(s, at, nodeEnd, seen) ==
    IF s.v = PVRT THEN texnImage(readUInt32(s.r))
    ELSE texnScan(skip(s.r, -3), nodeEnd, seen \cup {at})

texnScan(r, nodeEnd, seen) ==
    IF ~(tell(r) < nodeEnd - 4) THEN [r |-> r, tex |-> <<>>, status |-> "ok"]
    ELSE IF tell(r) \in seen THEN [r |-> r, tex |-> <<>>, status |-> "diverges"]
    ELSE texnScanStep(readString(r, 4), tell(r), nodeEnd, seen)

\* The state of one readTextures call while it walks the directory:
\*   r            the model reader
\*   cache        this.textureCache
\*   texCounter   the next slot ordinal
\*   nameRequests the pending {id, index} pairs
\*   assigned     history: one entry [kind, slot] per texCounter++, in order
\*   status       "ok" or "diverges"

\* a history entry without the increment
countSlotStuck(st, kind) ==
    [st EXCEPT !.assigned = Append(@, [kind |-> kind, slot |-> st.texCounter])]

\* texCounter++ together with its history entry
countSlot(st, kind) ==
    [st EXCEPT !.texCounter = @ + 1,
               !.assigned = Append(@, [kind |-> kind, slot |-> st.texCounter])]

\* the end of the "TEXN" branch, `scan` being what the scan for the nested tag
\* returned: `if (tex) this.textureCache.set(texCounter, tex)`, then texCounter++
texnScanned(st, scan) ==
    IF scan.status # "ok"
    THEN [st EXCEPT !.r = scan.r, !.status = scan.status]
    ELSE countSlot(
           [st EXCEPT !.r = scan.r,
                      !.cache = IF scan.tex # <<>>
                                THEN MapSet(@, st.texCounter, scan.tex[1])
                                ELSE @],
           "TEXN")

\* the "TEXN" branch
texnBlock(st, nodeEnd, skipExisting) ==
    IF skipExisting /\ MapHas(st.cache, st.texCounter)
    THEN countSlot(st, "TEXN")
    ELSE texnScanned(st, texnScan(readBytes(st.r, 8).r, nodeEnd, {}))

\* one entry of a "NAME" block, id being what readBytes(8) returned
nameEntry(st, id, skipExisting) ==
    IF skipExisting /\ MapHas(st.cache, st.texCounter)
    THEN countSlot([st EXCEPT !.r = id.r], "NAME")
    ELSE countSlot(
           [st EXCEPT !.r = id.r,
                      !.nameRequests = Append(@, [id |-> id.v, index |-> st.texCounter])],
           "NAME")

\* the "NAME" branch: for (i = 0; i < numEntries; i++) with numEntries the real
\* number (nodeSize - 8) / 8, so i < numEntries iff 8 * i < nodeSize - 8
RECURSIVE nameEntries(_, _, _, _, _)

\* `if (texCounter >= nbTex) break`, else the next entry
nameEntriesNext(st, i, nodeSize, nbTex, skipExisting) ==
    IF st.texCounter >= nbTex THEN st
    ELSE nameEntries(st, i + 1, nodeSize, nbTex, skipExisting)

nameEntries(st, i, nodeSize, nbTex, skipExisting) ==
    IF ~(8 * i < nodeSize - 8) THEN st
    ELSE nameEntriesNext(nameEntry(st, readBytes(st.r, 8), skipExisting),
                         i, nodeSize, nbTex, skipExisting)

\* the "PVRT" branch after the skip test, pvrLen being the word read
pvrtImage(st, pvrLen) ==
    countSlot(
      [st EXCEPT !.r = pvrLen.r,
                 !.cache = MapSet(@, st.texCounter,
                                  decode(Slice(pvrLen.r.buf, tell(pvrLen.r),
                                               tell(pvrLen.r) + pvrLen.v)))],
      "PVRT")

\* the "PVRT" branch
pvrtBlock(st, skipExisting) ==
    IF skipExisting /\ MapHas(st.cache, st.texCounter)
    THEN countSlot(st, "PVRT")
    ELSE pvrtImage(st, readUInt32(st.r))

\* reader.seek(nodeEnd) at the end of a directory block
seekNodeEnd(st, nodeEnd) ==
    IF st.status # "ok" THEN st ELSE [st EXCEPT !.r = seek(st.r, nodeEnd)]

\* a directory block decoded as a raw image whenever its marker is neither
\* "TEXN" nor "NAME"
dirBlockAnyTag(st, marker, nodeSize, nodeEnd, nbTex, skipExisting) ==
    seekNodeEnd(IF marker = TEXN THEN texnBlock(st, nodeEnd, skipExisting)
                ELSE IF marker = NAME
                     THEN nameEntries(st, 0, nodeSize, nbTex, skipExisting)
                ELSE pvrtBlock(st, skipExisting),
                nodeEnd)

\* one directory block after its 8-byte header: the branch for its marker (none
\* for any other marker), then reader.seek(nodeEnd)
dirBlock(st, marker, nodeSize, nodeEnd, nbTex, skipExisting) ==
    seekNodeEnd(IF marker = TEXN THEN texnBlock(st, nodeEnd, skipExisting)
                ELSE IF marker = NAME
                     THEN nameEntries(st, 0, nodeSize, nbTex, skipExisting)
                ELSE IF marker = PVRT THEN pvrtBlock(st, skipExisting)
                ELSE st,
                nodeEnd)

\* while (texCounter < nbTex && reader.canRead(8)) { ... }
RECURSIVE dirLoop(_, _, _)

\* a size test that throws instead of leaving the loop
dirHeaderThrows(st, startPos, marker, nodeSize, nbTex, skipExisting) ==
    IF nodeSize < 8 \/ nodeSize > SizeCeiling THEN [st EXCEPT !.status = "RangeError"]
    ELSE dirLoop(dirBlock(st, marker, nodeSize, startPos + nodeSize, nbTex, skipExisting),
                 nbTex, skipExisting)

\* one iteration once the block header has been read: the marker and nodeSize
\* (st holds the reader behind the header, startPos the block's offset)
dirHeader(st, startPos, marker, nodeSize, nbTex, skipExisting) ==
    IF nodeSize < 8 \/ nodeSize > SizeCeiling THEN st
    ELSE dirLoop(dirBlock(st, marker, nodeSize, startPos + nodeSize, nbTex, skipExisting),
                 nbTex, skipExisting)

\* the read of nodeSize, marker being what readString(4) returned
dirSize(st, startPos, marker, nodeSize, nbTex, skipExisting) ==
    dirHeader([st EXCEPT !.r = nodeSize.r], startPos, marker.v, nodeSize.v,
              nbTex, skipExisting)

dirMarker(st, marker, nbTex, skipExisting) ==
    dirSize(st, tell(st.r), marker, readUInt32(marker.r), nbTex, skipExisting)

dirLoop(st, nbTex, skipExisting) ==
    IF st.status # "ok" THEN st
    ELSE IF ~(st.texCounter < nbTex /\ canRead(st.r, 8)) THEN st
    ELSE dirMarker(st, readString(st.r, 4), nbTex, skipExisting)

\* The scan of the pack for one request, the pack reader at sr:
\*   while (tell < size - 12) { ... }
\* Returns <<>> when nothing is bound, <<tex>> on a match.
RECURSIVE scanPack(_, _, _)

\* a comparison of the high halves alone
idMatchesHigh(entryHi, entryLo, reqHi, reqLo) == entryHi = reqHi

\* entryHi === reqHi && entryLo === reqLo
idMatches(entryHi, entryLo, reqHi, reqLo) == entryHi = reqHi /\ entryLo = reqLo

scanPack(sr, reqHi, reqLo) ==
    IF ~(tell(sr) < size(sr) - 12) THEN <<>>
    ELSE LET entryPos == tell(sr)
             entryHi == GetU32(sr.buf, entryPos)
             entryLo == GetU32(sr.buf, entryPos + 4)
             entryLen == GetU32(sr.buf, entryPos + 8)
         IN  IF entryLen = 0 \/ entryLen > SizeCeiling THEN <<>>
             ELSE LET sr1 == seek(sr, entryPos + 12)
                      start == tell(sr1)
                  IN  IF idMatches(entryHi, entryLo, reqHi, reqLo)
                      THEN <<decode(Slice(sr.buf, start, start + entryLen))>>
                      ELSE scanPack(skip(sr1, entryLen), reqHi, reqLo)

\* new DataView(req.id.buffer, req.id.byteOffset, 8) throws a RangeError when the
\* 8 bytes do not fit in the buffer behind the view
reqViewFits(id) == id.byteOffset + 8 <= id.backing

\* `if (tex) this.textureCache.set(req.index, tex)`, tex being <<>> or <<tex>>
bindFound(cache, index, tex) ==
    IF tex # <<>> THEN MapSet(cache, index, tex[1]) ELSE cache

\* nameRequests.forEach(...) from request k on; an exception ends the forEach
RECURSIVE resolveRequests(_, _, _, _)
resolveRequests(cache, nameRequests, k, secondaryReader) ==
    IF k > Len(nameRequests) THEN [cache |-> cache, status |-> "ok"]
    ELSE IF ~reqViewFits(nameRequests[k].id) THEN [cache |-> cache, status |-> "RangeError"]
    ELSE resolveRequests(
           bindFound(cache, nameRequests[k].index,
                     scanPack(seek(secondaryReader, 0),
                              GetU32(nameRequests[k].id.bytes, 0),
                              GetU32(nameRequests[k].id.bytes, 4))),
           nameRequests, k + 1, secondaryReader)

\* what a readTextures call that found no "TEXD" tag reports
noDirectory(cache) ==
    [cache |-> cache, status |-> "ok", entered |-> FALSE, nbTex |-> 0,
     assigned |-> <<>>, nameRequests |-> <<>>]

\* the final step of readTextures, st being the state the directory loop ended in
resolvePending(st, secondaryReader, nbTex) ==
    LET res == IF st.status = "ok" /\ secondaryReader # <<>>
                  /\ Len(st.nameRequests) > 0
               THEN resolveRequests(st.cache, st.nameRequests, 1, secondaryReader[1])
               ELSE [cache |-> st.cache, status |-> st.status]
    IN  [cache |-> res.cache, status |-> res.status, entered |-> TRUE,
         nbTex |-> nbTex, assigned |-> st.assigned,
         nameRequests |-> st.nameRequests]

\* readTextures from the directory loop on, nbTex being the word read
readDirectory(reader, texdStart, headerSize, nbTex, secondaryReader, skipExisting, cache) ==
    resolvePending(
      dirLoop([r |-> seek(reader, texdStart + headerSize),
               cache |-> cache, texCounter |-> 0,
               nameRequests |-> <<>>, assigned |-> <<>>, status |-> "ok"],
              nbTex, skipExisting),
      secondaryReader, nbTex)

\* readTextures after the 'TEXD' test, headerSize being the word read
readCount(texdStart, headerSize, nbTex, secondaryReader, skipExisting, cache) ==
    readDirectory(nbTex.r, texdStart, headerSize.v, nbTex.v,
                  secondaryReader, skipExisting, cache)

\* readTextures after the tag has been read
readTag(texdStart, tag, secondaryReader, skipExisting, cache) ==
    IF tag.v # TEXD THEN noDirectory(cache)
    ELSE readCount(texdStart, readUInt32(tag.r), readUInt32(readUInt32(tag.r).r),
                   secondaryReader, skipExisting, cache)

\* Mt5Loader.readTextures(reader, secondaryReader, skipExisting) with the texture
\* map `cache`; secondaryReader is <<>> or <<a reader>>.  Returns the map
\* afterwards, the status, and what the call did: whether a directory was
\* entered, its declared count, the slot history and the pending requests.
readTextures(reader, secondaryReader, skipExisting, cache) ==
    readTag(tell(reader), readString(reader, 4), secondaryReader, skipExisting, cache)

\* the ceiling on the number of records readPolygons decodes
IterationCeiling == 10000

\* A texture coordinate.  texU / uvSize is carried exactly as the fraction n/d
\* (kind "ratio"); the two scaled forms keep the 16-bit value n and the name of
\* the factor.  0.0 is 0/1.
ZeroUV == [kind |-> "ratio", n |-> 0, d |-> 1]

\* u (or v) of a strip entry from the signed 16-bit texU, including the mirror
\* halving `if (mirror && Math.abs(u) > 1.0) u /= 2.0`.  A high-resolution value
\* texU * 0.000015258789 is below 1 in magnitude for every 16-bit texU, and so is
\* texU * 0.00000000023283064: neither is ever halved.
uvValue(tex, isUVH, uvSize, mirror) ==
    IF isUVH THEN [kind |-> "times 0.000015258789", n |-> tex, d |-> 1]
    ELSE IF Abs(tex) < 61440
         THEN IF mirror /\ Abs(tex) > uvSize
              THEN [kind |-> "ratio", n |-> tex, d |-> 2 * uvSize]
              ELSE [kind |-> "ratio", n |-> tex, d |-> uvSize]
         ELSE [kind |-> "times 0.00000000023283064", n |-> tex, d |-> 1]

\* a 16-bit or 8-bit read that is made only when `wanted`; `unread` otherwise
readShortIf(wanted, r, unread) == IF wanted THEN readShort(r) ELSE [r |-> r, v |-> unread]
readUInt8If(wanted, r, unread) == IF wanted THEN readUInt8(r) ELSE [r |-> r, v |-> unread]

\* a strip index that is never counted back from the end of the mesh's vertices
entryIdxFromBase(rawIdx, vertexBase, nbVertex) == vertexBase + rawIdx

\* let idx = vertexBase + rawIdx; if (rawIdx < 0) idx = vertexBase + nbVertex + rawIdx
entryIdx(rawIdx, vertexBase, nbVertex) ==
    IF rawIdx < 0 THEN vertexBase + nbVertex + rawIdx ELSE vertexBase + rawIdx

\* One strip entry {idx, u, v, color}.  A colour channel byte / 255 is carried as
\* the byte; the default colour [1, 1, 1, 1] is 255/255 in every channel.
stripEntry(r, ps, hasUV, hasColor, vertexBase, nbVertex) ==
    LET rawIdx == readShort(r)
        texU == readShortIf(hasUV, rawIdx.r, 0)
        texV == readShortIf(hasUV, texU.r, 0)
        b == readUInt8If(hasColor, texV.r, 255)
        g == readUInt8If(hasColor, b.r, 255)
        rr == readUInt8If(hasColor, g.r, 255)
        a == readUInt8If(hasColor, rr.r, 255)
    IN  [r |-> a.r,
         v |-> [idx |-> entryIdx(rawIdx.v, vertexBase, nbVertex),
                u |-> IF hasUV THEN uvValue(texU.v, ps.isUVH, ps.uvSize, ps.uMirror)
                      ELSE ZeroUV,
                v |-> IF hasUV THEN uvValue(texV.v, ps.isUVH, ps.uvSize, ps.vMirror)
                      ELSE ZeroUV,
                color |-> <<rr.v, g.v, b.v, a.v>>]]

\* for (k = 0; k < absStripLen; k++): once the reader is at the end of the buffer
\* an entry read leaves it there, so all the remaining entries are equal
RECURSIVE stripEntries(_, _, _, _, _, _, _, _, _)

\* the loop from entry k on, e being entry k as read at r
stripEntriesFrom(e, r, ps, k, absStripLen, strip, hasUV, hasColor, vertexBase, nbVertex) ==
    IF ~canRead(r, 1)
    THEN [r |-> r, v |-> strip \o [j \in 1..(absStripLen - k) |-> e.v]]
    ELSE stripEntries(e.r, ps, k + 1, absStripLen, Append(strip, e.v),
                      hasUV, hasColor, vertexBase, nbVertex)

stripEntries(r, ps, k, absStripLen, strip, hasUV, hasColor, vertexBase, nbVertex) ==
    IF k >= absStripLen THEN [r |-> r, v |-> strip]
    ELSE stripEntriesFrom(stripEntry(r, ps, hasUV, hasColor, vertexBase, nbVertex),
                          r, ps, k, absStripLen, strip, hasUV, hasColor,
                          vertexBase, nbVertex)

\* for (i = 0; i < nbStrips; i++): at the end of the buffer every remaining strip
\* reads a length of 0 and is empty
RECURSIVE readStrips(_, _, _, _, _, _, _, _, _)

\* the loop after strip i has been read as `strip`
readStripsFrom(strip, ps, i, nbStrips, strips, hasUV, hasColor, vertexBase, nbVertex) ==
    readStrips(strip.r, ps, i + 1, nbStrips, Append(strips, strip.v),
               hasUV, hasColor, vertexBase, nbVertex)

\* strip i: its length word stripLenRaw, then Math.abs(stripLenRaw) entries
readStrip(stripLenRaw, ps, hasUV, hasColor, vertexBase, nbVertex) ==
    stripEntries(stripLenRaw.r, ps, 0, Abs(stripLenRaw.v), <<>>,
                 hasUV, hasColor, vertexBase, nbVertex)

readStrips(r, ps, i, nbStrips, strips, hasUV, hasColor, vertexBase, nbVertex) ==
    IF i >= nbStrips THEN [r |-> r, v |-> strips]
    ELSE IF ~canRead(r, 1)
         THEN [r |-> r, v |-> strips \o [j \in 1..(nbStrips - i) |-> <<>>]]
    ELSE readStripsFrom(readStrip(readShort(r), ps, hasUV, hasColor, vertexBase, nbVertex),
                        ps, i, nbStrips, strips, hasUV, hasColor,
                        vertexBase, nbVertex)

\* The polygon stream loop.  ps is the decoder state: reader r, polygons,
\* currentTexIdx, isUVH, uvSize, uMirror, vMirror, iterations.
RECURSIVE polygonLoop(_, _, _)

\* a strip attribute record (0x0002 - 0x0007) whose bytes `data` have been read
stripAttributes(ps, data) ==
    [ps EXCEPT !.r = data.r,
        !.isUVH = IF Len(data.v.bytes) >= 1 THEN Bit(data.v.bytes[1], 0) = 1 ELSE @,
        !.uMirror = IF Len(data.v.bytes) >= 11 THEN Bit(data.v.bytes[11], 2) = 1 ELSE @,
        !.vMirror = IF Len(data.v.bytes) >= 11 THEN Bit(data.v.bytes[11], 1) = 1 ELSE @]

\* a texture selection record that is read and has no effect
textureSelectIgnored(ps, t) == [ps EXCEPT !.r = t.r]

\* a texture selection record (0x0009) whose value t has been read
textureSelect(ps, t) == [ps EXCEPT !.r = t.r, !.currentTexIdx = t.v]

\* a UV size record (0x000B) whose value sizeVal has been read
uvSizeOverride(ps, sizeVal) ==
    [ps EXCEPT !.r = sizeVal.r, !.uvSize = IF sizeVal.v # 0 THEN sizeVal.v ELSE @]

\* polygons.push(poly) for a strip group whose strips have been read
pushPoly(ps, type, strips) ==
    [ps EXCEPT !.r = strips.r,
               !.polygons = Append(@, [strips |-> strips.v, head |-> type,
                                       texId |-> ps.currentTexIdx])]

\* a strip group whose components are taken from bits 0 and 1 of the type
stripGroupByBits(ps, type, nbStrips, vertexBase, nbVertex) ==
    pushPoly(ps, type,
             readStrips(nbStrips.r, ps, 0, nbStrips.v, <<>>,
                        Bit(type, 0) = 1, Bit(type, 1) = 1,
                        vertexBase, nbVertex))

\* a strip group (0x10 - 0x1F) from the word nbStrips on
stripGroup(ps, type, nbStrips, vertexBase, nbVertex) ==
    pushPoly(ps, type,
             readStrips(nbStrips.r, ps, 0, nbStrips.v, <<>>,
                        type \in {17, 20, 25, 28}, type \in {18, 20, 26, 28},
                        vertexBase, nbVertex))

\* a loop body that steps over a record type it does not know
polygonRecordSkipUnknown(ps, type, vertexBase, nbVertex) ==
    IF type = 32768 THEN <<ps, FALSE>>
    ELSE IF type = 0 \/ type = 65535 THEN <<ps, TRUE>>
    ELSE IF type >= 2 /\ type <= 7
         THEN <<stripAttributes(ps, readBytes(readUShort(ps.r).r, readUShort(ps.r).v)), TRUE>>
    ELSE IF type = 9 THEN <<textureSelect(ps, readUShort(ps.r)), TRUE>>
    ELSE IF type = 11 THEN <<uvSizeOverride(ps, readUShort(ps.r)), TRUE>>
    ELSE IF type = 8 \/ type = 10 THEN <<[ps EXCEPT !.r = skip(@, 2)], TRUE>>
    ELSE IF type = 14 \/ type = 15 THEN <<[ps EXCEPT !.r = skip(@, 10)], TRUE>>
    ELSE IF type >= 16 /\ type <= 31
         THEN <<stripGroup(ps, type, readUShort(readUShort(ps.r).r), vertexBase, nbVertex),
                TRUE>>
    ELSE <<ps, TRUE>>

\* a loop body that takes the end marker for a null word
polygonRecordPastMarker(ps, type, vertexBase, nbVertex) ==
    IF type = 32768 \/ type = 0 \/ type = 65535 THEN <<ps, TRUE>>
    ELSE IF type >= 2 /\ type <= 7
         THEN <<stripAttributes(ps, readBytes(readUShort(ps.r).r, readUShort(ps.r).v)), TRUE>>
    ELSE IF type = 9 THEN <<textureSelect(ps, readUShort(ps.r)), TRUE>>
    ELSE IF type = 11 THEN <<uvSizeOverride(ps, readUShort(ps.r)), TRUE>>
    ELSE IF type = 8 \/ type = 10 THEN <<[ps EXCEPT !.r = skip(@, 2)], TRUE>>
    ELSE IF type = 14 \/ type = 15 THEN <<[ps EXCEPT !.r = skip(@, 10)], TRUE>>
    ELSE IF type >= 16 /\ type <= 31
         THEN <<stripGroup(ps, type, readUShort(readUShort(ps.r).r), vertexBase, nbVertex),
                TRUE>>
    ELSE <<ps, FALSE>>

\* the loop body after the record type has been read, ps holding the reader
\* behind the type word: <<the state, whether the loop goes on>>
polygonRecord(ps, type, vertexBase, nbVertex) ==
    IF type = 32768 THEN <<ps, FALSE>>
    ELSE IF type = 0 \/ type = 65535 THEN <<ps, TRUE>>
    ELSE IF type >= 2 /\ type <= 7
         THEN <<stripAttributes(ps, readBytes(readUShort(ps.r).r, readUShort(ps.r).v)), TRUE>>
    ELSE IF type = 9 THEN <<textureSelect(ps, readUShort(ps.r)), TRUE>>
    ELSE IF type = 11 THEN <<uvSizeOverride(ps, readUShort(ps.r)), TRUE>>
    ELSE IF type = 8 \/ type = 10 THEN <<[ps EXCEPT !.r = skip(@, 2)], TRUE>>
    ELSE IF type = 14 \/ type = 15 THEN <<[ps EXCEPT !.r = skip(@, 10)], TRUE>>
    ELSE IF type >= 16 /\ type <= 31
         THEN <<stripGroup(ps, type, readUShort(readUShort(ps.r).r), vertexBase, nbVertex),
                TRUE>>
    ELSE <<ps, FALSE>>

\* the loop after one more record has been decoded
polygonNext(step, vertexBase, nbVertex) ==
    IF step[2] THEN polygonLoop(step[1], vertexBase, nbVertex) ELSE step[1]

\* iterations++ and the read of the record type
polygonType(ps, type, vertexBase, nbVertex) ==
    polygonRecord([ps EXCEPT !.r = type.r, !.iterations = @ + 1], type.v,
                  vertexBase, nbVertex)

polygonLoop(ps, vertexBase, nbVertex) ==
    IF ~(ps.r.offset < size(ps.r) - 2 /\ ps.iterations < IterationCeiling) THEN ps
    ELSE polygonNext(polygonType(ps, readUShort(ps.r), vertexBase, nbVertex),
                     vertexBase, nbVertex)

\* what readPolygons returns from the state the loop ended in
polygonsRead(ps) == [r |-> ps.r, v |-> ps.polygons]

\* Mt5Loader.readPolygons: the reader afterwards and the polygons
readPolygons(reader, vertexBase, nbVertex) ==
    polygonsRead(polygonLoop([r |-> reader, polygons |-> <<>>, currentTexIdx |-> 0,
                              isUVH |-> FALSE, uvSize |-> 1024,
                              uMirror |-> FALSE, vMirror |-> FALSE, iterations |-> 0],
                             vertexBase, nbVertex))

\* -x for a float x as readFloat32 returned it
Neg(x) == [neg |-> x]

\* one 24-byte vertex record at offset pos: {pos: [-x, y, z], norm: [-nx, ny, nz]}
readVertex(buf, pos) ==
    [pos |-> <<Neg(GetF32(buf, pos)), GetF32(buf, pos + 4), GetF32(buf, pos + 8)>>,
     norm |-> <<Neg(GetF32(buf, pos + 12)), GetF32(buf, pos + 16), GetF32(buf, pos + 20)>>]

\* Mt5Loader.readModel with the loader's globalVertices and vertexOffset passed in
\* and returned.  The vertex loop reads nbVertex records of 24 bytes and stops at
\* the first one that does not fit in the buffer.  polygons is <<>> (undefined)
\* or <<the list readPolygons returned>>.  `headerEnd` and `reader` are the
\* cursor behind the header and the reader when readModel returns, after the
\* `reader.seek(saved)` of the polygon branch (the vertex branch restores the
\* same position before it).
readModel(reader, gVertices, vOffset) ==
    LET flag == readUInt32(reader)
        vertexAddr == readUInt32(flag.r)
        nbVertex == readUInt32(vertexAddr.r)
        polygonAddr == readUInt32(nbVertex.r)
        cx == readFloat32(polygonAddr.r)
        cy == readFloat32(cx.r)
        cz == readFloat32(cy.r)
        radius == readFloat32(cz.r)
        vertexBase == vOffset
        hasVertices == vertexAddr.v > 0 /\ vertexAddr.v < size(reader)
        nbRead == IF hasVertices
                  THEN Min(nbVertex.v, (size(reader) - vertexAddr.v) \div 24)
                  ELSE 0
        hasPolygons == polygonAddr.v > 0 /\ polygonAddr.v < size(reader)
    IN  [model |-> [flag |-> flag.v, vertexAddr |-> vertexAddr.v,
                    nbVertex |-> nbVertex.v, polygonAddr |-> polygonAddr.v,
                    center |-> <<cx.v, cy.v, cz.v>>, radius |-> radius.v,
                    vertexBase |-> vertexBase,
                    polygons |-> IF hasPolygons
                                 THEN <<readPolygons(seek(radius.r, polygonAddr.v),
                                                     vertexBase, nbVertex.v).v>>
                                 ELSE <<>>],
         globalVertices |-> gVertices \o
             [i \in 1..nbRead |-> readVertex(reader.buf, vertexAddr.v + 24 * (i - 1))],
         vertexOffset |-> IF hasVertices THEN vOffset + nbVertex.v ELSE vOffset,
         headerEnd |-> tell(radius.r),
         reader |-> IF hasPolygons
                    THEN seek(readPolygons(seek(radius.r, polygonAddr.v),
                                           vertexBase, nbVertex.v).r,
                              tell(radius.r))
                    ELSE radius.r]

\* Number.prototype.toFixed(5) of a texture coordinate: the sign and the magnitude
\* in units of 0.00001, rounded half away from zero
Fixed5(uv) ==
    LET a == Abs(uv.n)
    IN  [neg |-> uv.n < 0,
         m |-> IF uv.kind = "ratio"
               THEN LET q == (a * 1000) \div uv.d
                        rem == (a * 1000) % uv.d
                    IN  q * 100 + (2 * rem * 100 + uv.d) \div (2 * uv.d)
               ELSE IF uv.kind = "times 0.000015258789"
               THEN LET w == a * 5258
                        low == (w % 10000) * 1000 + a * 789
                    IN  a + w \div 10000 + (2 * low + 10000000) \div 20000000
               ELSE (a * 2328 + 50000000) \div 100000000]

\* the vertexMap key `${idx}_${u.toFixed(5)}_${v.toFixed(5)}_${color.join(',')}`
vertexKey(p) == <<p.idx, Fixed5(p.u), Fixed5(p.v), p.color>>

\* The loop over the entries of one strip.  g is the state of the texture group:
\*   keys       the vertexMap keys in insertion order (key number k maps to k - 1)
\*   vertices   what was pushed on positions/normals/uvs/colors, one entry per key
\*   indices    the triangle indices emitted so far
\* Returns the group state and stripIndices.
RECURSIVE stripIndexLoop(_, _, _, _, _)
stripIndexLoop(g, strip, k, stripIndices, gVertices) ==
    IF k > Len(strip) THEN [g |-> g, stripIndices |-> stripIndices]
    ELSE LET p == strip[k]
             key == vertexKey(p)
             known == {i \in DOMAIN g.keys : g.keys[i] = key}
         IN  IF known # {}
             THEN stripIndexLoop(g, strip, k + 1,
                                 Append(stripIndices, (CHOOSE i \in known : TRUE) - 1),
                                 gVertices)
             ELSE IF ~(p.idx >= 0 /\ p.idx < Len(gVertices))
             THEN stripIndexLoop(g, strip, k + 1, stripIndices, gVertices)
             ELSE stripIndexLoop(
                    [g EXCEPT !.keys = Append(@, key),
                              !.vertices = Append(@, [vertex |-> gVertices[p.idx + 1],
                                                      uv |-> <<p.u, p.v>>,
                                                      color |-> p.color])],
                    strip, k + 1, Append(stripIndices, Len(g.keys)), gVertices)

\* triangles that all keep the order (a, b, c)
stripTrianglesSameWinding(stripIndices) ==
    [j \in 1..(3 * Max(0, Len(stripIndices) - 2)) |->
        stripIndices[(j - 1) \div 3 + ((j - 1) % 3) + 1]]

\* for (i = 0; i < stripIndices.length - 2; i++): (a, b, c) for even i, (a, c, b) for odd
stripTriangles(stripIndices) ==
    LET tri(i) == IF i % 2 = 0
                  THEN <<stripIndices[i + 1], stripIndices[i + 2], stripIndices[i + 3]>>
                  ELSE <<stripIndices[i + 1], stripIndices[i + 3], stripIndices[i + 2]>>
    IN  [j \in 1..(3 * Max(0, Len(stripIndices) - 2)) |->
            tri((j - 1) \div 3)[((j - 1) % 3) + 1]]

\* the strips of a list of polygons, in order
RECURSIVE stripsOf(_)
stripsOf(polys) ==
    IF polys = <<>> THEN <<>> ELSE Head(polys).strips \o stripsOf(Tail(polys))

\* the loops over the polygons of one texture group and over their strips
RECURSIVE groupLoop(_, _, _, _)
groupLoop(g, strips, s, gVertices) ==
    IF s > Len(strips) THEN g
    ELSE LET one == stripIndexLoop(g, strips[s], 1, <<>>, gVertices)
         IN  groupLoop([one.g EXCEPT !.indices = @ \o stripTriangles(one.stripIndices)],
                       strips, s + 1, gVertices)

\* the indices with, after them, each triangle again with reversed winding
doubleSided(indices) ==
    indices \o [j \in 1..Len(indices) |->
                   LET t == (j - 1) \div 3
                       c == (j - 1) % 3
                   IN  indices[3 * t + (IF c = 0 THEN 1 ELSE IF c = 1 THEN 3 ELSE 2)]]

\* the texture ids of the polygons in order of first appearance (the key order
\* of the texGroups Map)
RECURSIVE texGroupIds(_, _)
texGroupIds(polys, ids) ==
    IF polys = <<>> THEN ids
    ELSE texGroupIds(Tail(polys),
                     IF \E i \in DOMAIN ids : ids[i] = Head(polys).texId THEN ids
                     ELSE Append(ids, Head(polys).texId))

\* the sub-mesh built from the geometry g of one texture group: <<>> when the
\* group has no triangle or its texture is missing from the cache
subMeshFrom(texId, g, cache) ==
        IF Len(g.indices) = 0 \/ ~MapHas(cache, texId) THEN <<>>
        ELSE LET tex == cache[texId]
             IN  <<[texId |-> texId,
                    vertices |-> g.vertices,
                    indices |-> IF tex.hasGradientAlpha THEN doubleSided(g.indices)
                                ELSE g.indices,
                    transparencyMode |-> IF tex.hasGradientAlpha THEN "ALPHABLEND"
                                         ELSE IF tex.hasAlpha THEN "ALPHATEST"
                                         ELSE "OPAQUE",
                    hasVertexAlpha |-> tex.hasGradientAlpha]>>

\* the sub-mesh of the texture group texId
subMeshOf(texId, polys, cache, gVertices) ==
    subMeshFrom(texId,
                groupLoop([keys |-> <<>>, vertices |-> <<>>, indices |-> <<>>],
                          stripsOf(SelectSeq(polys, LAMBDA poly : poly.texId = texId)),
                          1, gVertices),
                cache)

RECURSIVE subMeshes(_, _, _, _, _)
subMeshes(ids, k, polys, cache, gVertices) ==
    IF k > Len(ids) THEN <<>>
    ELSE subMeshOf(ids[k], polys, cache, gVertices)
            \o subMeshes(ids, k + 1, polys, cache, gVertices)

\* Mt5Loader.createMeshFromModel: <<>> for null, else <<the root mesh>>
createMeshFromModel(model, cache, gVertices) ==
    IF model.polygons = <<>> THEN <<>>
    ELSE IF Len(model.polygons[1]) = 0 THEN <<>>
    ELSE <<[kind |-> "Mesh",
            subMeshes |-> subMeshes(texGroupIds(model.polygons[1], <<>>), 1,
                                    model.polygons[1], cache, gVertices)]>>

\* a visited test that overlooks the first node of the list
visitedAfterRoot(nodes, nodeAddr) ==
    \E i \in DOMAIN nodes : i > 1 /\ nodes[i].addr = nodeAddr

\* nodes.some(n => n.addr === nodeAddr)
visited(nodes, nodeAddr) == \E i \in DOMAIN nodes : nodes[i].addr = nodeAddr

\* The 64-byte node record at the reader's offset (canRead(64) holds, so each of
\* the sixteen reads succeeds).  A rotation is carried as the signed 32-bit value
\* read (the angle in 1/65536 turns).
nodeRecord(r) ==
    LET at(k) == r.offset + 4 * k
    IN  [addr |-> r.offset,
         flag |-> GetU32(r.buf, at(0)),
         modelAddr |-> GetU32(r.buf, at(1)),
         rot |-> <<GetI32(r.buf, at(2)), GetI32(r.buf, at(3)), GetI32(r.buf, at(4))>>,
         scl |-> <<GetF32(r.buf, at(5)), GetF32(r.buf, at(6)), GetF32(r.buf, at(7))>>,
         pos |-> <<GetF32(r.buf, at(8)), GetF32(r.buf, at(9)), GetF32(r.buf, at(10))>>,
         child |-> GetU32(r.buf, at(11)),
         sibling |-> GetU32(r.buf, at(12)),
         parentAddr |-> GetU32(r.buf, at(13)),
         unk1 |-> GetU32(r.buf, at(14)),
         unk2 |-> GetU32(r.buf, at(15))]

\* the TransformNode created for a node without a model
dummyNode == [kind |-> "TransformNode", subMeshes |-> <<>>]

\* Mt5Loader.readNode.  ns carries what the recursion changes: the nodes list,
\* the loader's globalVertices and vertexOffset, `decoded`, the history of
\* readModel calls (the node offset of each), and `meshes`, the history of what
\* each of those calls met and left.  A node's model and mesh are <<>>
\* (undefined / null) or <<value>>.
RECURSIVE readNode(_, _, _)

\* nodes.push(node), then a descent into the sibling before the child
pushNodeSiblingFirst(reader, rec, model, mesh, ns, cache) ==
    LET node == [addr |-> rec.addr, flag |-> rec.flag, modelAddr |-> rec.modelAddr,
                 rot |-> rec.rot, scl |-> rec.scl, pos |-> rec.pos,
                 child |-> rec.child, sibling |-> rec.sibling,
                 parentAddr |-> rec.parentAddr, unk1 |-> rec.unk1, unk2 |-> rec.unk2,
                 model |-> model, mesh |-> mesh]
        ns1 == [ns EXCEPT !.nodes = Append(@, node)]
        ns2 == IF rec.sibling # 0 /\ rec.sibling < size(reader)
               THEN readNode(seek(reader, rec.sibling), ns1, cache)
               ELSE ns1
    IN  IF rec.child # 0 /\ rec.child < size(reader)
        THEN readNode(seek(reader, rec.child), ns2, cache)
        ELSE ns2

\* nodes.push(node), then the descent into the child and into the sibling
pushNode(reader, rec, model, mesh, ns, cache) ==
    LET node == [addr |-> rec.addr, flag |-> rec.flag, modelAddr |-> rec.modelAddr,
                 rot |-> rec.rot, scl |-> rec.scl, pos |-> rec.pos,
                 child |-> rec.child, sibling |-> rec.sibling,
                 parentAddr |-> rec.parentAddr, unk1 |-> rec.unk1, unk2 |-> rec.unk2,
                 model |-> model, mesh |-> mesh]
        ns1 == [ns EXCEPT !.nodes = Append(@, node)]
        ns2 == IF rec.child # 0 /\ rec.child < size(reader)
               THEN readNode(seek(reader, rec.child), ns1, cache)
               ELSE ns1
    IN  IF rec.sibling # 0 /\ rec.sibling < size(reader)
        THEN readNode(seek(reader, rec.sibling), ns2, cache)
        ELSE ns2

\* the history entry of one readModel call made from readNode with the reader
\* at `reader` (const saved = reader.tell()), m being what it returned:
\*   poolBefore   globalVertices.length when the call began
\*   poolAfter    globalVertices.length when it returned
\*   saved, afterNode   the cursor before `reader.seek(node.modelAddr)` and after
\*                      the `reader.seek(saved)` that follows the call
meshRecord(reader, rec, ns, m) ==
    [addr |-> rec.addr, modelAddr |-> rec.modelAddr,
     vertexBase |-> m.model.vertexBase, nbVertex |-> m.model.nbVertex,
     poolBefore |-> Len(ns.globalVertices), poolAfter |-> Len(m.globalVertices),
     polygons |-> m.model.polygons,
     headerEnd |-> m.headerEnd, afterModel |-> tell(m.reader),
     saved |-> tell(reader), afterNode |-> tell(seek(m.reader, tell(reader)))]

\* a node with a model, m being what readModel returned for it
nodeWithModel(reader, rec, ns, cache, m) ==
    pushNode(reader, rec, <<m.model>>,
             createMeshFromModel(m.model, cache, m.globalVertices),
             [ns EXCEPT !.globalVertices = m.globalVertices,
                        !.vertexOffset = m.vertexOffset,
                        !.decoded = Append(@, rec.addr),
                        !.meshes = Append(@, meshRecord(reader, rec, ns, m))],
             cache)

\* a node whose record rec has been read, the reader now behind the record
nodeAt(reader, rec, ns, cache) ==
    IF rec.modelAddr > 0 /\ rec.modelAddr < size(reader)
    THEN nodeWithModel(reader, rec, ns, cache,
                       readModel(seek(reader, rec.modelAddr),
                                 ns.globalVertices, ns.vertexOffset))
    ELSE pushNode(reader, rec, <<>>, <<dummyNode>>, ns, cache)

readNode(reader, ns, cache) ==
    IF ~canRead(reader, 64) THEN ns
    ELSE IF visited(ns.nodes, reader.offset) THEN ns
    ELSE nodeAt(Advance(reader, 64), nodeRecord(reader), ns, cache)

\* The hierarchy loop of load: every node that has a scene object gets its
\* transform and its parent, "root" for modelRoot or the offset of the parent node.
\* scene[k] is <<>> for a node without a scene object.
sceneNodes(nodes) ==
    [k \in DOMAIN nodes |->
        LET node == nodes[k]
            found == {i \in DOMAIN nodes : nodes[i].addr = node.parentAddr}
            first == CHOOSE i \in found : \A o \in found : i <= o
        IN  IF node.mesh = <<>> THEN <<>>
            ELSE <<[addr |-> node.addr,
                    kind |-> node.mesh[1].kind,
                    subMeshes |-> node.mesh[1].subMeshes,
                    position |-> <<Neg(node.pos[1]), node.pos[2], node.pos[3]>>,
                    rotation |-> <<node.rot[1], -node.rot[2], -node.rot[3]>>,
                    scaling |-> node.scl,
                    parent |-> IF node.parentAddr # 0 /\ found # {}
                                  /\ nodes[first].mesh # <<>>
                               THEN <<nodes[first].addr>>
                               ELSE <<>>]>>]

\* what one readTextures call of load was given and what it returned
passRecord(pack, skipExisting, cache, res) ==
    [pack |-> pack, skipExisting |-> skipExisting, before |-> cache,
     cache |-> res.cache, status |-> res.status, entered |-> res.entered,
     nbTex |-> res.nbTex, assigned |-> res.assigned,
     nameRequests |-> res.nameRequests]

\* one readTextures call of load: reader.seek(texOffset), then readTextures
\* with a reader over `pack` (<<>> for no reader)
texturePass(reader, texOffset, pack, skipExisting, cache) ==
    passRecord(pack, skipExisting, cache,
               readTextures(seek(reader, texOffset),
                            IF pack = <<>> THEN <<>> ELSE <<BinaryReader(pack[1])>>,
                            skipExisting, cache))

\* the calls made once the first pass has returned `first`: when there is a time
\* reader and the pass has returned, the pass over the base pack with skipExisting
afterFirstPass(first, reader, texOffset, basePack, timePack) ==
    IF timePack = <<>> \/ first.status # "ok" THEN <<first>>
    ELSE <<first, texturePass(reader, texOffset, basePack, TRUE, first.cache)>>

\* The texture part of load (lines 50-66): the readTextures calls made, in order.
\* basePack and timePack are the buffers behind baseReader and timeReader; the
\* first pass is over the time pack if there is one, else over the base pack.
\* self holds the loader's fields as lines 25-27 left them.
texturePasses(reader, texOffset, basePack, timePack, self) ==
    IF ~(texOffset > 0 /\ texOffset < size(reader)) THEN <<>>
    ELSE afterFirstPass(texturePass(reader, texOffset,
                                    IF timePack # <<>> THEN timePack ELSE basePack,
                                    FALSE, self.textureCache),
                        reader, texOffset, basePack, timePack)

\* The second argument of load: null, an ArrayBuffer, or an object whose base and
\* time properties are each absent (<<>>) or a buffer (<<buffer>>).
NoPack == [kind |-> "null"]
PackBuffer(b) == [kind |-> "buffer", buffer |-> b]
PackObject(base, time) == [kind |-> "object", base |-> base, time |-> time]

\* the buffers behind baseReader and timeReader (lines 32-48), <<>> for null
baseReaderOf(secondaryBuffer) ==
    IF secondaryBuffer.kind = "object" THEN secondaryBuffer.base
    ELSE IF secondaryBuffer.kind = "buffer" THEN <<secondaryBuffer.buffer>>
    ELSE <<>>
timeReaderOf(secondaryBuffer) ==
    IF secondaryBuffer.kind = "object" THEN secondaryBuffer.time ELSE <<>>

\* what load returns with once readNode has returned ns
loaded(passes, cache, ns) ==
    [outcome |-> "ok",
     textureCache |-> cache,
     globalVertices |-> ns.globalVertices,
     vertexOffset |-> ns.vertexOffset,
     passes |-> passes, nodes |-> ns.nodes,
     decoded |-> ns.decoded, meshes |-> ns.meshes, scene |-> sceneNodes(ns.nodes)]

\* load from line 70 on, `passes` being the readTextures calls made before and
\* self the loader's fields as lines 25-27 left them
loadNodes(reader, modelOffset, passes, self) ==
    LET last == passes[Len(passes)]
        cache == IF passes = <<>> THEN self.textureCache ELSE last.cache
    IN  IF passes # <<>> /\ last.status # "ok"
        THEN [outcome |-> last.status,
              textureCache |-> cache,
              globalVertices |-> self.globalVertices,
              vertexOffset |-> self.vertexOffset,
              passes |-> passes, nodes |-> <<>>, decoded |-> <<>>, meshes |-> <<>>,
              scene |-> <<>>]
        ELSE loaded(passes, cache,
                    readNode(seek(reader, modelOffset),
                             [nodes |-> <<>>, globalVertices |-> self.globalVertices,
                              vertexOffset |-> self.vertexOffset,
                              decoded |-> <<>>, meshes |-> <<>>],
                             cache))

\* a load that leaves the loader's fields as the call before left them
kept(self) == self

\* this.textureCache.clear(); this.globalVertices = []; this.vertexOffset = 0
cleared(self) == [textureCache |-> <<>>, globalVertices |-> <<>>, vertexOffset |-> 0]

\* load from line 29 on, self holding the loader's fields
started(reader, texOffset, modelOffset, secondaryBuffer, self) ==
    loadNodes(reader, modelOffset,
              texturePasses(reader, texOffset, baseReaderOf(secondaryBuffer),
                            timeReaderOf(secondaryBuffer), self),
              self)

\* a throw that comes after the three fields have been reset
rejectedAfterReset(self) ==
    [outcome |-> "FormatError",
     textureCache |-> <<>>, globalVertices |-> <<>>, vertexOffset |-> 0,
     passes |-> <<>>, nodes |-> <<>>, decoded |-> <<>>, meshes |-> <<>>,
     scene |-> <<>>]

\* `throw new Error("Invalid MT5 file signature")` at line 17: nothing has been
\* assigned yet, the loader's fields are what they were
rejected(self) ==
    [outcome |-> "FormatError",
     textureCache |-> self.textureCache,
     globalVertices |-> self.globalVertices,
     vertexOffset |-> self.vertexOffset,
     passes |-> <<>>, nodes |-> <<>>, decoded |-> <<>>, meshes |-> <<>>,
     scene |-> <<>>]

\* Mt5Loader.load(buffer, secondaryBuffer) on a loader whose fields are `self`.
\* outcome is "ok" (the promise resolves), "FormatError" (the signature error),
\* "RangeError" (an exception out of readTextures) or "diverges" (no return).
load(buffer, secondaryBuffer, self) ==
    LET reader == BinaryReader(buffer)
        signature == readString(reader, 4)
    IN  IF signature.v # HRCM
        THEN rejected(self)
        ELSE LET texOffset == readUInt32(signature.r)
                 modelOffset == readUInt32(texOffset.r)
             IN  started(modelOffset.r, texOffset.v, modelOffset.v, secondaryBuffer,
                         cleared(self))

(***************************************************************************)
(* Inputs and little-endian encoders used to build them.                   *)
(***************************************************************************)
U16LE(n) == <<n % 256, (n \div 256) % 256>>
U32LE(n) == <<n % 256, (n \div 256) % 256, (n \div 65536) % 256, (n \div 16777216) % 256>>

\* the prefix of a buffer: the first n bytes (the whole buffer when n is larger)
Truncate(buf, n) == SubSeq(buf, 1, Min(n, Len(buf)))

(***************************************************************************)
(* SpecReader: every BinaryReader operation, in any order, on every small  *)
(* buffer.                                                                 *)
(***************************************************************************)
MaxBufLen == 3
MaxArg == 3
ReaderBytes == {0, 65}
ReaderBufs == UNION {[1..n -> ReaderBytes] : n \in 0..MaxBufLen}

NoOp == [op |-> "new", arg |-> 0, pre |-> 0, ret |-> 0]

PvrIdle == pvrIn = <<>> /\ pvrOut = <<>>
NoCall == [phase |-> "none"]
NoFn == [op |-> "none"]
LoaderFresh ==
    /\ textureCache = <<>>
    /\ globalVertices = <<>>
    /\ vertexOffset = 0
    /\ call = NoCall
FnIdle == fn = NoFn

InitReader ==
    /\ rd \in {BinaryReader(b) : b \in ReaderBufs}
    /\ rdOp = NoOp
    /\ PvrIdle
    /\ LoaderFresh
    /\ FnIdle

RdApply(op, arg, res) ==
    /\ rd' = res.r
    /\ rdOp' = [op |-> op, arg |-> arg, pre |-> rd.offset, ret |-> res.v]
    /\ UNCHANGED <<pvrIn, pvrOut, textureCache, globalVertices, vertexOffset, call, fn>>

DoReadUInt8 == RdApply("readUInt8", 1, readUInt8(rd))
DoReadUInt16 == RdApply("readUInt16", 2, readUInt16(rd))
DoReadInt16 == RdApply("readInt16", 2, readInt16(rd))
DoReadUInt32 == RdApply("readUInt32", 4, readUInt32(rd))
DoReadInt32 == RdApply("readInt32", 4, readInt32(rd))
DoReadFloat32 == RdApply("readFloat32", 4, readFloat32(rd))
DoReadBytes == \E len \in 0..MaxArg : RdApply("readBytes", len, readBytes(rd, len))
DoReadString == \E len \in 0..MaxArg : RdApply("readString", len, readString(rd, len))
DoSeek == \E pos \in -1..(MaxBufLen + 1) :
            RdApply("seek", pos, [r |-> seek(rd, pos), v |-> 0])
DoSkip == \E len \in -MaxArg..MaxArg :
            RdApply("skip", len, [r |-> skip(rd, len), v |-> 0])

NextReader ==
    \/ DoReadUInt8
    \/ DoReadUInt16
    \/ DoReadInt16
    \/ DoReadUInt32
    \/ DoReadInt32
    \/ DoReadFloat32
    \/ DoReadBytes
    \/ DoReadString
    \/ DoSeek
    \/ DoSkip

SpecReader == InitReader /\ [][NextReader]_vars

NumericReads ==
    {"readUInt8", "readUInt16", "readInt16", "readUInt32", "readInt32", "readFloat32"}

\* the last operation was a read issued with fewer bytes remaining than it requires
ShortRead ==
    /\ rdOp.op \in NumericReads \cup {"readBytes"}
    /\ size(rd) - rdOp.pre < rdOp.arg

\* C3: after any sequence of BinaryReader operations on a buffer of size S the
\* cursor satisfies 0 <= offset <= S.
C3_OffsetWithinBuffer == 0 <= rd.offset /\ rd.offset <= size(rd)

\* C4 (as stated): a read issued when fewer bytes remain than it requires returns
\* zero (numeric reads) or an empty slice (readBytes) and leaves the cursor exactly
\* at the end of the buffer.
C4_ShortReadZeroOrEmpty ==
    ShortRead =>
        /\ rd.offset = size(rd)
        /\ rdOp.op \in NumericReads => rdOp.ret = 0
        /\ rdOp.op = "readBytes" => rdOp.ret.bytes = <<>>

\* C4 (amended): a short numeric read returns zero and leaves the cursor exactly at
\* the end of the buffer; a short readBytes(n) returns the bytes that remain (none
\* when the cursor is at or past the end) and advances the cursor by that many.
C4_ShortReadClamps ==
    ShortRead =>
        /\ rdOp.op \in NumericReads => rdOp.ret = 0 /\ rd.offset = size(rd)
        /\ rdOp.op = "readBytes" =>
            /\ rdOp.ret.bytes = Slice(rd.buf, rdOp.pre, size(rd))
            /\ rd.offset = rdOp.pre + Len(rdOp.ret.bytes)
            /\ rdOp.pre <= size(rd) => rd.offset = size(rd)

\* C4 witnesses: a short numeric read from inside the buffer, and a short readBytes
\* that still had bytes to return
C4_ShortReadHappened ==
    /\ ShortRead
    /\ rdOp.op = "readBytes"
    /\ rdOp.pre < size(rd)
    /\ rdOp.ret.bytes # <<>>

(***************************************************************************)
(* SpecPvr: PvrDecoder.decode applied to every texture buffer of a bounded *)
(* family: each pixel format, raw/twiddled/VQ data formats, every width    *)
(* and height up to MaxDim, 0..MaxWords 16-bit words of data after the     *)
(* header, with and without the 'PVRT' + length wrapper, and every         *)
(* truncation of one wrapped buffer.                                       *)
(***************************************************************************)
MaxDim == 3
MaxWords == 4
PixelFormats == {0, 1, 2, 3}
DataFormats == {1, 3, 9}

\* the k-th 16-bit word of texture data (k = 1, 2, ...)
PixelWord(k) ==
    IF k = 1 THEN 63488 ELSE IF k = 2 THEN 2016 ELSE (k * 4369 + 33825) % 65536

RECURSIVE PixelWords(_)
PixelWords(n) == IF n = 0 THEN <<>> ELSE PixelWords(n - 1) \o U16LE(PixelWord(n))

\* the 8-byte texture header: pixel format, data format, 2 bytes padding, width, height
PvrHeader(hdr) ==
    <<hdr.colorFormat, hdr.dataFormat, 0, 0>> \o U16LE(hdr.width) \o U16LE(hdr.height)

PvrPayload(hdr, words) == PvrHeader(hdr) \o PixelWords(words)

\* 'PVRT' + 4-byte length + payload
PvrWrapped(payload) == PVRT \o U32LE(Len(payload)) \o payload

PvrHeaders ==
    [colorFormat : PixelFormats, dataFormat : DataFormats,
     width : 0..MaxDim, height : 0..MaxDim]

PvrInputs ==
    {[buf |-> IF wrapped THEN PvrWrapped(PvrPayload(hdr, words))
                         ELSE PvrPayload(hdr, words),
      hdr |-> hdr, words |-> words, wrapped |-> wrapped, whole |-> TRUE] :
        hdr \in PvrHeaders, words \in 0..MaxWords, wrapped \in BOOLEAN}
    \cup
    {[buf |-> Truncate(PvrWrapped(PvrPayload(hdr, 2)), n),
      hdr |-> hdr, words |-> 2, wrapped |-> TRUE, whole |-> FALSE] :
        hdr \in {[colorFormat |-> 1, dataFormat |-> 9, width |-> 2, height |-> 1]},
        n \in 0..15}

ReaderIdle == rd = BinaryReader(<<>>) /\ rdOp = NoOp

InitPvr ==
    /\ pvrIn \in PvrInputs
    /\ pvrOut = <<>>
    /\ ReaderIdle
    /\ LoaderFresh
    /\ FnIdle

\* new PvrDecoder(pvrIn.buf).decode(scene)
Decode ==
    /\ pvrOut = <<>>
    /\ pvrOut' = <<decode(pvrIn.buf)>>
    /\ UNCHANGED <<rd, rdOp, pvrIn, textureCache, globalVertices, vertexOffset, call, fn>>

NextPvr == Decode

SpecPvr == InitPvr /\ [][NextPvr]_vars

IsExample565 ==
    /\ pvrIn.whole
    /\ ~pvrIn.wrapped
    /\ pvrIn.hdr = [colorFormat |-> 1, dataFormat |-> 9, width |-> 2, height |-> 1]
    /\ pvrIn.words = 2

\* C10 (as stated): the example texture decodes to [255,0,0,255, 0,255,0,255].
C10_ExampleIsSaturated ==
    IsExample565 /\ pvrOut # <<>> => pvrOut[1].data = <<255, 0, 0, 255, 0, 255, 0, 255>>

\* C10 (amended): the example texture, decoded from a buffer that starts directly at
\* its header, yields [248,0,0,255, 0,252,0,255]: the 5- and 6-bit channels are
\* shifted left by 3 and 2 and not widened to the full 0..255 range.
C10_ExampleIsShifted ==
    IsExample565 /\ pvrOut # <<>> => pvrOut[1].data = <<248, 0, 0, 255, 0, 252, 0, 255>>

\* C10 witness: the example texture has been decoded
C10_ExampleDecoded == IsExample565 /\ pvrOut # <<>> /\ Len(pvrOut[1].data) = 8

(***************************************************************************)
(* Model files and texture packs, built from the layouts the loader reads. *)
(***************************************************************************)
RECURSIVE Concat(_)
Concat(seqs) == IF seqs = <<>> THEN <<>> ELSE Head(seqs) \o Concat(Tail(seqs))

\* a directory block: 4-byte tag, 4-byte size (the 8 header bytes included), body
Block(tag, body) == tag \o U32LE(8 + Len(body)) \o body
\* a block that declares `declared` as its size whatever its body is
BlockSized(tag, declared, body) == tag \o U32LE(declared) \o body

\* an 8-byte texture identifier from its two 32-bit halves
TexId(hi, lo) == U32LE(hi) \o U32LE(lo)
IdA == TexId(1, 1)
IdB == TexId(2, 1)
IdC == TexId(1, 2)

\* a 1x1 rectangle texture payload: 8-byte header and one pixel (every byte below
\* 128, so that no 32-bit read over texture bytes exceeds the checker's integers)
Texel(colorFormat, word) ==
    PvrHeader([colorFormat |-> colorFormat, dataFormat |-> 9, width |-> 1, height |-> 1])
        \o U16LE(word)
Tex1 == Texel(1, 30720)
Tex2 == Texel(1, 1888)
Tex3 == Texel(2, 32639)
Tex4 == Texel(0, 31775)

\* a pack record: identifier, length, payload
PackRecord(id, payload) == id \o U32LE(Len(payload)) \o payload

\* the 12-byte file header
Hrcm(texOffset, modelOffset) == HRCM \o U32LE(texOffset) \o U32LE(modelOffset)

\* the texture directory: 'TEXD', header size 12, declared count, child blocks
Directory(nbTex, blocks) == TEXD \o U32LE(12) \o U32LE(nbTex) \o Concat(blocks)

\* a model file that holds only a directory: the node offset is the end of file
DirectoryFile(nbTex, blocks) ==
    LET dir == Directory(nbTex, blocks)
    IN  Hrcm(12, 12 + Len(dir)) \o dir

\* The directory blocks the model files are assembled from:
\*   an embedded image; an embedded block without a nested image; an embedded
\*   block that declares 64 bytes but holds 12 and no nested image; two external
\*   references; two declared references of which the second is cut after 4 bytes;
\*   a raw 'PVRT' block; a block with an unknown tag; a block of declared size 0.
TexnImage == Block(TEXN, IdA \o PvrWrapped(Tex4))
TexnEmpty == Block(TEXN, IdA \o <<65, 66, 67, 68>>)
TexnOverrun == BlockSized(TEXN, 64, IdA \o <<65, 66, 67, 68>>)
NameTwo == Block(NAME, IdA \o IdB)
NameCut == BlockSized(NAME, 24, IdC \o <<2, 0, 0, 0>>)
PvrtRaw == Block(PVRT, U32LE(10) \o Tex3)
JunkBlock == Block(<<74, 85, 78, 75>>, <<>>)
ZeroBlock == BlockSized(NAME, 0, <<>>)

DirBlocks ==
    {TexnImage, TexnEmpty, TexnOverrun, NameTwo, NameCut, PvrtRaw, JunkBlock, ZeroBlock}

MaxBlocks == 2
MaxTex == 3

BlockLists == UNION {[1..n -> DirBlocks] : n \in 0..MaxBlocks}

\* the pack the directory files are loaded with
PackAB == PackRecord(IdB, Tex2) \o PackRecord(IdA, Tex1) \o PackRecord(IdC, Tex3)

\* a pack whose first record has length 0
PackHole == PackRecord(IdB, <<>>) \o PackRecord(IdA, Tex1)

\* The pack records the packs are assembled from: two records for identifier A
\* with different payloads, one for B, one for C (A with another low half), a
\* record of length 0, and a record whose payload is cut short.
PackRecords ==
    {PackRecord(IdA, Tex1), PackRecord(IdA, Tex2), PackRecord(IdB, Tex3),
     PackRecord(IdC, Tex2), PackRecord(IdB, <<>>),
     IdB \o U32LE(10) \o Truncate(Tex1, 6)}

MaxRecords == 2
MaxPairRecords == 1

PacksUpTo(n) == {Concat(recs) : recs \in UNION {[1..k -> PackRecords] : k \in 0..n}}

\* the model files loaded with them: three external references; an embedded image
\* and two references; a reference followed by one that is cut after 4 bytes
PackModels ==
    {DirectoryFile(3, <<Block(NAME, IdA \o IdB \o IdC)>>),
     DirectoryFile(3, <<TexnImage, NameTwo>>),
     DirectoryFile(2, <<BlockSized(NAME, 24, IdA \o <<2, 0, 0, 0>>)>>)}

\* one pack p, passed as a buffer, as {base} or as {time}
OnePack(p) == {PackBuffer(p), PackObject(<<p>>, <<>>), PackObject(<<>>, <<p>>)}

\* the base packs of the loads with two packs
BasePacks == PacksUpTo(MaxPairRecords) \cup {PackAB, PackHole}

\* A 64-byte node record: flag, mesh offset, rotation, scale, position, child,
\* sibling, parent, two reserved words.
NodeBytes(modelAddr, child, sibling, parentAddr) ==
    U32LE(0) \o U32LE(modelAddr)
        \o U32LE(16384) \o <<0, 192, 255, 255>> \o U32LE(0)
        \o <<0, 0, 128, 63>> \o <<0, 0, 128, 63>> \o <<0, 0, 0, 64>>
        \o <<0, 0, 128, 63>> \o <<0, 0, 0, 0>> \o <<0, 0, 64, 64>>
        \o U32LE(child) \o U32LE(sibling) \o U32LE(parentAddr)
        \o U32LE(0) \o U32LE(0)

\* the 16-bit two's complement encoding of a signed value
I16LE(n) == U16LE((n + 65536) % 65536)

\* Mesh data placed at offset `at`: the 32-byte header, two 24-byte vertices and a
\* polygon stream (texture select 0; one strip group with UVs holding one strip of
\* three entries, the last with index -1; the end marker; two bytes of padding).
MeshBytes(at) ==
    U32LE(0) \o U32LE(at + 32) \o U32LE(2) \o U32LE(at + 80)
        \o <<0, 0, 0, 0>> \o <<0, 0, 0, 0>> \o <<0, 0, 0, 0>> \o <<0, 0, 128, 63>>
        \o Concat([i \in 1..12 |-> <<i, 0, 128, 63>>])
        \o U16LE(9) \o U16LE(0)
        \o U16LE(17) \o U16LE(0) \o U16LE(1) \o I16LE(3)
        \o I16LE(0) \o I16LE(0) \o I16LE(0)
        \o I16LE(1) \o I16LE(512) \o I16LE(0)
        \o I16LE(-1) \o I16LE(512) \o I16LE(-512)
        \o U16LE(32768) \o <<0, 0>>

MaxNodes == 2

NodeAddr(i) == 12 + 64 * (i - 1)

\* where the child and sibling fields of node i of n point: nowhere, at the first
\* node, at the node itself, at the next node, or past the end of the file
LinkTargets(i, n) ==
    {0, NodeAddr(1), NodeAddr(i), IF i < n THEN NodeAddr(i + 1) ELSE 100000}

NodeLinks(n) ==
    {l \in [1..n -> (UNION {LinkTargets(i, n) : i \in 1..n})
                    \X (UNION {LinkTargets(i, n) : i \in 1..n})] :
        \A i \in 1..n : l[i][1] \in LinkTargets(i, n) /\ l[i][2] \in LinkTargets(i, n)}

\* A model file of n nodes.  withMesh: a directory with one embedded image and
\* mesh data follow the nodes, and every node points at that mesh.  toFirst: every
\* node names the first node as its parent.
NodeFile(n, links, withMesh, toFirst) ==
    LET dirAt == NodeAddr(n + 1)
        dir == Directory(1, <<TexnImage>>)
        meshAt == dirAt + Len(dir)
    IN  Hrcm(IF withMesh THEN dirAt ELSE 0, 12)
            \o Concat([i \in 1..n |->
                         NodeBytes(IF withMesh THEN meshAt ELSE 0, links[i][1], links[i][2],
                                   IF toFirst THEN NodeAddr(1) ELSE 0)])
            \o (IF withMesh THEN dir \o MeshBytes(meshAt) ELSE <<>>)

\* A strip group of type 0x11 (UVs, no colours) holding one strip whose entries
\* have the raw indices idxs
Group17(idxs) ==
    U16LE(17) \o U16LE(0) \o U16LE(1) \o I16LE(Len(idxs))
        \o Concat([k \in DOMAIN idxs |-> I16LE(idxs[k]) \o I16LE(512) \o I16LE(-512)])

\* Polygon streams.  Bare: one strip group and the end marker.  Stateful: a UV
\* size of 512, texture 1, strip attributes with the high-resolution and both
\* mirror bits set, one strip group and the end marker.  Unknown: the same
\* with the opcode 0x0020 in place of the end marker, and behind it bytes that
\* read as a further strip group.  Empty: the end marker alone.
StreamBare == Group17(<<0, 1, -1>>) \o U16LE(32768)
StatefulRecords ==
    U16LE(11) \o U16LE(512) \o U16LE(9) \o U16LE(1)
        \o U16LE(2) \o U16LE(11) \o <<1, 0, 0, 0, 0, 0, 0, 0, 0, 0, 6>>
        \o Group17(<<0, -1, 1>>)
StreamStateful == StatefulRecords \o U16LE(32768)
StreamUnknown == StatefulRecords \o U16LE(32) \o Group17(<<1, 0, -1>>) \o U16LE(32768)
StreamEmpty == U16LE(32768)
Streams == {StreamBare, StreamStateful, StreamUnknown, StreamEmpty}

\* the 32-byte mesh header: flag, vertexAddr, nbVertex, polygonAddr, centre, radius
MeshHeader(vertexAddr, nbVertex, polygonAddr) ==
    U32LE(0) \o U32LE(vertexAddr) \o U32LE(nbVertex) \o U32LE(polygonAddr)
        \o <<0, 0, 0, 0>> \o <<0, 0, 0, 0>> \o <<0, 0, 0, 0>> \o <<0, 0, 128, 63>>

MaxHeld == 2

\* A model file of two nodes, the second the sibling of the first, each with a
\* mesh of its own: mesh i declares n[i] vertices and has the polygon stream
\* s[i].  Both meshes take their vertices from the end of the file, where `held`
\* vertex records are held.
MeshFile(n, s, held) ==
    LET polygonsAt == 12 + 64 + 64 + 32 + 32
        verticesAt == polygonsAt + Len(s[1]) + Len(s[2])
    IN  Hrcm(0, 12)
            \o NodeBytes(12 + 128, 0, 12 + 64, 0) \o NodeBytes(12 + 128 + 32, 0, 0, 0)
            \o MeshHeader(verticesAt, n[1], polygonsAt)
            \o MeshHeader(verticesAt, n[2], polygonsAt + Len(s[1]))
            \o s[1] \o s[2]
            \o Concat([i \in 1..(6 * held) |-> <<i, 0, 128, 63>>])

\* buffers that do not start with 'HRCM': an empty one, a cut signature, a texture,
\* a file header with another fourth letter
BadSignatureBuffers ==
    {<<>>, <<72, 82, 67>>, PvrWrapped(Tex1), <<72, 82, 67, 88>> \o U32LE(12) \o U32LE(12)}

(***************************************************************************)
(* SpecLoad: one Mt5Loader.  load has no await between its first statement  *)
(* and its return, so a call runs to completion before another call starts: *)
(* each call is one step.                                                   *)
(***************************************************************************)
\* the loader's fields
Self ==
    [textureCache |-> textureCache, globalVertices |-> globalVertices,
     vertexOffset |-> vertexOffset]

InitLoad ==
    /\ LoaderFresh
    /\ ReaderIdle
    /\ PvrIdle
    /\ FnIdle

\* how much the loader holds: the bound slots, the length of the vertex pool
\* and the vertex counter
Held ==
    [slots |-> DOMAIN textureCache, vertices |-> Len(globalVertices),
     vertexOffset |-> vertexOffset]

\* loader.load(buffer, secondaryBuffer) has ended as res says; `before` is what
\* the loader held when the call was made
Returned(buffer, secondaryBuffer, res) ==
        /\ textureCache' = res.textureCache
        /\ globalVertices' = res.globalVertices
        /\ vertexOffset' = res.vertexOffset
        /\ call' = [phase |-> "done", before |-> Held, buffer |-> buffer,
                    secondaryBuffer |-> secondaryBuffer,
                    outcome |-> res.outcome, passes |-> res.passes,
                    nodes |-> res.nodes, decoded |-> res.decoded,
                    meshes |-> res.meshes, scene |-> res.scene]
        /\ UNCHANGED <<rd, rdOp, pvrIn, pvrOut, fn>>

\* loader.load(buffer, secondaryBuffer)
LoadCall(buffer, secondaryBuffer) ==
    Returned(buffer, secondaryBuffer, load(buffer, secondaryBuffer, Self))

\* The first call on a new loader, with a model file that holds only a texture
\* directory, without a pack or with the pack PackAB
LoadDirectory ==
    /\ call = NoCall
    /\ \E nbTex \in 0..MaxTex, blocks \in BlockLists, sec \in {NoPack, PackBuffer(PackAB)} :
            LoadCall(DirectoryFile(nbTex, blocks), sec)

\* ... with a model of external references and one pack
LoadWithPack ==
    /\ call = NoCall
    /\ \E m \in PackModels, p \in PacksUpTo(MaxRecords) :
            \E sec \in OnePack(p) : LoadCall(m, sec)

\* ... with a model of external references, a base pack and a time pack
LoadWithPacks ==
    /\ call = NoCall
    /\ \E m \in PackModels, b \in BasePacks, t \in PacksUpTo(MaxPairRecords) :
            LoadCall(m, PackObject(<<b>>, <<t>>))

\* ... with a model file of nodes
LoadNodeFile ==
    /\ call = NoCall
    /\ \E n \in 1..MaxNodes, withMesh \in BOOLEAN, toFirst \in BOOLEAN :
            \E links \in NodeLinks(n) :
                LoadCall(NodeFile(n, links, withMesh, toFirst), NoPack)

\* ... with a model file of two meshes
LoadMeshFile ==
    /\ call = NoCall
    /\ \E n1 \in 0..(MaxHeld + 1), n2 \in 0..(MaxHeld + 1), held \in 0..MaxHeld :
            \E s1 \in Streams, s2 \in Streams :
                LoadCall(MeshFile(<<n1, n2>>, <<s1, s2>>, held), NoPack)

\* ... with a buffer that does not start with 'HRCM'
LoadBadSignature ==
    /\ call = NoCall
    /\ \E b \in BadSignatureBuffers, sec \in {NoPack, PackBuffer(PackAB)} :
            LoadCall(b, sec)

\* the buffers of a further call: the ones without the signature, a directory
\* of one embedded image, a file of two meshes
ReloadBuffers ==
    BadSignatureBuffers
        \cup {DirectoryFile(1, <<TexnImage>>),
              MeshFile(<<1, 1>>, <<StreamEmpty, StreamEmpty>>, 1)}

\* a further call on the same loader, once the call before it has ended (by a
\* return or by an exception)
Reload ==
    /\ call.phase = "done"
    /\ call.outcome # "diverges"
    /\ \E b \in ReloadBuffers : LoadCall(b, NoPack)

NextLoad ==
    \/ LoadDirectory
    \/ LoadWithPack
    \/ LoadWithPacks
    \/ LoadNodeFile
    \/ LoadMeshFile
    \/ LoadBadSignature
    \/ Reload

SpecLoad == InitLoad /\ [][NextLoad]_vars

\* the call has ended
Done == call.phase = "done"

StartsWithHRCM(buf) == Len(buf) >= 4 /\ SubSeq(buf, 1, 4) = HRCM

\* C1: for every model buffer whose first four bytes are 'HRCM' and any packs,
\* load returns normally: no exception escapes (and the call does end).
C1_LoadReturnsNormally ==
    Done /\ StartsWithHRCM(call.buffer) => call.outcome = "ok"

\* C2: a load of a buffer whose first four bytes are not 'HRCM' fails with the
\* signature error; the texture map, the vertex pool and the vertex counter are
\* what they were before the call, and no node is decoded.
C2_BadSignatureFailsUntouched ==
    [][call'.phase = "done" /\ ~StartsWithHRCM(call'.buffer) =>
          /\ call'.outcome = "FormatError"
          /\ textureCache' = textureCache
          /\ globalVertices' = globalVertices
          /\ vertexOffset' = vertexOffset
          /\ call'.passes = <<>>
          /\ call'.nodes = <<>>
          /\ call'.decoded = <<>>]_vars

\* C2 witness: a buffer with a bad signature was rejected by a loader that holds
\* textures and vertices of an earlier load
C2_RejectedAfterLoad ==
    /\ Done
    /\ call.outcome = "FormatError"
    /\ textureCache # <<>>
    /\ globalVertices # <<>>
    /\ vertexOffset > 0

\* The records of a pack read as a flat concatenation of (8-byte identifier, 4-byte
\* length, payload) from offset p on.
RECURSIVE FlatRecords(_, _)
FlatRecords(pack, p) ==
    IF p + 12 > Len(pack) THEN <<>>
    ELSE <<[id |-> Slice(pack, p, p + 8),
            payload |-> Slice(pack, p + 12, p + 12 + GetU32(pack, p + 8))]>>
            \o FlatRecords(pack, p + 12 + GetU32(pack, p + 8))

\* The records the scan reaches from offset p on: it goes on while more than 12
\* bytes remain and ends at a record whose length is 0 or above 0x1000000.
RECURSIVE ScannedRecords(_, _)
ScannedRecords(pack, p) ==
    IF p + 12 >= Len(pack) THEN <<>>
    ELSE IF GetU32(pack, p + 8) = 0 \/ GetU32(pack, p + 8) > SizeCeiling THEN <<>>
    ELSE <<[id |-> Slice(pack, p, p + 8),
            payload |-> Slice(pack, p + 12, p + 12 + GetU32(pack, p + 8))]>>
            \o ScannedRecords(pack, p + 12 + GetU32(pack, p + 8))

\* the payload of the first record of recs whose identifier is id, if there is one
FirstWith(recs, id) ==
    IF \A k \in DOMAIN recs : recs[k].id # id THEN <<>>
    ELSE <<recs[CHOOSE k \in DOMAIN recs :
                  /\ recs[k].id = id
                  /\ \A o \in 1..(k - 1) : recs[o].id # id].payload>>

\* slot `index` of cache holds the decoded payload `found`, or is absent if none
BoundTo(cache, index, found) ==
    IF found = <<>> THEN ~MapHas(cache, index)
    ELSE MapHas(cache, index) /\ cache[index] = decode(found[1])

\* every pending reference of pass p is bound to the first record of recs that has
\* its identifier, and is absent from the map when there is none
PassResolves(p, recs) ==
    \A k \in DOMAIN p.nameRequests :
        BoundTo(p.cache, p.nameRequests[k].index,
                FirstWith(recs, p.nameRequests[k].id.bytes))

\* a pass whose resolution step ran against a pack
Resolved(p) == p.pack # <<>> /\ p.status # "diverges"

\* both a base pack and a time-variant pack were supplied
BothPacks ==
    /\ Done
    /\ call.secondaryBuffer.kind = "object"
    /\ call.secondaryBuffer.base # <<>>
    /\ call.secondaryBuffer.time # <<>>
    /\ call.passes # <<>>

\* C5, first half: every slot bound during the first pass still holds that texture
\* when load has ended.
C5_FirstPassKept ==
    BothPacks =>
        \A slot \in DOMAIN call.passes[1].cache :
            MapHas(textureCache, slot) /\ textureCache[slot] = call.passes[1].cache[slot]

\* C5, second half: every external slot the first pass left unbound whose
\* identifier has a record in the base pack is bound to that record's payload.
C5_BaseFillsGap ==
    BothPacks =>
        \A k \in DOMAIN call.passes[1].nameRequests :
            \/ MapHas(call.passes[1].cache, call.passes[1].nameRequests[k].index)
            \/ FirstWith(FlatRecords(call.secondaryBuffer.base[1], 0),
                         call.passes[1].nameRequests[k].id.bytes) = <<>>
            \/ BoundTo(textureCache, call.passes[1].nameRequests[k].index,
                       FirstWith(FlatRecords(call.secondaryBuffer.base[1], 0),
                                 call.passes[1].nameRequests[k].id.bytes))

\* C5: with both packs supplied, first-pass bindings survive the base pass and the
\* base pack fills every gap it has a record for.
C5_TimeFirstBaseFills == C5_FirstPassKept /\ C5_BaseFillsGap

\* C6 (as stated): resolving against one pack, a pending slot is bound exactly when
\* some record of the pack, read as consecutive records from offset 0, has the
\* requested identifier, and then to the payload of the first such record; other
\* slots stay absent.
C6_ResolutionFollowsRecords ==
    Done =>
        \A i \in DOMAIN call.passes :
            Resolved(call.passes[i]) =>
                PassResolves(call.passes[i], FlatRecords(call.passes[i].pack[1], 0))

\* C6 (amended): the same for the records the scan reaches: it reads consecutive
\* records from offset 0 while more than 12 bytes remain and stops at the first
\* record whose length is 0 or greater than 0x1000000.
C6_ResolutionFollowsScan ==
    Done =>
        \A i \in DOMAIN call.passes :
            Resolved(call.passes[i]) =>
                PassResolves(call.passes[i], ScannedRecords(call.passes[i].pack[1], 0))

\* C6 witness: a pack with two records for one identifier and different payloads
\* bound a slot, and another pending slot of the same model stayed absent
C6_FirstOfTwoBound ==
    /\ Done
    /\ \E i \in DOMAIN call.passes :
        /\ Resolved(call.passes[i])
        /\ call.passes[i].status = "ok"
        /\ \E k \in DOMAIN call.passes[i].nameRequests :
            /\ MapHas(call.passes[i].cache, call.passes[i].nameRequests[k].index)
            /\ \E a, b \in DOMAIN ScannedRecords(call.passes[i].pack[1], 0) :
                /\ a < b
                /\ ScannedRecords(call.passes[i].pack[1], 0)[a].id
                     = call.passes[i].nameRequests[k].id.bytes
                /\ ScannedRecords(call.passes[i].pack[1], 0)[b].id
                     = call.passes[i].nameRequests[k].id.bytes
                /\ ScannedRecords(call.passes[i].pack[1], 0)[a].payload
                     # ScannedRecords(call.passes[i].pack[1], 0)[b].payload
        /\ \E k \in DOMAIN call.passes[i].nameRequests :
            ~MapHas(call.passes[i].cache, call.passes[i].nameRequests[k].index)

\* C7: node traversal decodes each node offset at most once: no two entries of the
\* node list have the same offset, and the mesh at a node is decoded at most once.
C7_EachOffsetOnce ==
    Done =>
        /\ \A i, j \in DOMAIN call.nodes :
            call.nodes[i].addr = call.nodes[j].addr => i = j
        /\ \A i, j \in DOMAIN call.decoded :
            call.decoded[i] = call.decoded[j] => i = j

\* C7 witness: a file in which a child or sibling offset is the offset of the node
\* itself or of a node decoded before it, with a mesh decoded at two nodes
C7_CycleTraversed ==
    /\ Done
    /\ call.outcome = "ok"
    /\ Len(call.decoded) >= 2
    /\ \E k \in DOMAIN call.nodes : \E j \in 1..k :
        \/ call.nodes[k].child = call.nodes[j].addr
        \/ call.nodes[k].sibling = call.nodes[j].addr

\* C8: in one directory decode the slot ordinals are 0,1,2,... in enumeration
\* order, one per TEXN block, NAME identifier and PVRT block, no ordinal twice,
\* and every key of the texture map and every pending slot is below the declared
\* texture count.
C8_SlotsDense ==
    Done =>
        \A i \in DOMAIN call.passes :
            /\ \A k \in DOMAIN call.passes[i].assigned :
                /\ call.passes[i].assigned[k].slot = k - 1
                /\ call.passes[i].assigned[k].slot < call.passes[i].nbTex
                /\ call.passes[i].assigned[k].kind \in {"TEXN", "NAME", "PVRT"}
            /\ \A slot \in DOMAIN call.passes[i].cache :
                0 <= slot /\ slot < call.passes[i].nbTex
            /\ \A k \in DOMAIN call.passes[i].nameRequests :
                /\ 0 <= call.passes[i].nameRequests[k].index
                /\ call.passes[i].nameRequests[k].index < call.passes[i].nbTex

\* C8 witness: a directory whose embedded block holds no image took slot 0 and left
\* it unbound, and the identifiers of a reference block took the slots after it
C8_MixedDirectory ==
    /\ Done
    /\ \E i \in DOMAIN call.passes :
        /\ Len(call.passes[i].assigned) >= 3
        /\ call.passes[i].assigned[1].kind = "TEXN"
        /\ ~MapHas(call.passes[i].cache, 0)
        /\ call.passes[i].assigned[2].kind = "NAME"
        /\ call.passes[i].assigned[3].kind = "NAME"
        /\ Len(call.passes[i].nameRequests) = 2

\* C18: every readTextures call of a load ends, also on an embedded-image
\* block whose declared size reaches past the end of the buffer and that holds
\* no nested 'PVRT' tag.
C18_DirectoryDecodeEnds ==
    Done => \A i \in DOMAIN call.passes : call.passes[i].status # "diverges"

\* the bytes of the file from the polygon stream of the k-th decoded mesh on
StreamOf(k) ==
    SubSeq(call.buffer, GetU32(call.buffer, call.meshes[k].modelAddr + 12) + 1,
           Len(call.buffer))

StartsWith(seq, prefix) ==
    Len(seq) >= Len(prefix) /\ SubSeq(seq, 1, Len(prefix)) = prefix

\* the stream of the k-th mesh runs into the opcode 0x0020 behind its first group
HitsUnknown(k) == StartsWith(StreamOf(k), StatefulRecords \o U16LE(32))

\* every entry of every strip of the polygons was decoded with the default
\* stream state: texture 0, standard precision, UV divisor 1024 and no halving
DefaultDecoded(polygons) ==
    \A p \in DOMAIN polygons :
        /\ polygons[p].texId = 0
        /\ \A t \in DOMAIN polygons[p].strips :
              \A e \in DOMAIN polygons[p].strips[t] :
                  /\ polygons[p].strips[t][e].u = [kind |-> "ratio", n |-> 512, d |-> 1024]
                  /\ polygons[p].strips[t][e].v = [kind |-> "ratio", n |-> -512, d |-> 1024]

\* C15: a polygon stream that reaches an unknown opcode stops there without
\* raising and yields exactly the strip groups before the opcode; the cursor is
\* put back where it was before the stream (and the mesh) was decoded; and the
\* next mesh of the load is decoded from the default stream state.
C15_UnknownOpcodeStopsStream ==
    Done =>
        \A k \in DOMAIN call.meshes :
            /\ HitsUnknown(k) =>
                  /\ call.outcome = "ok"
                  /\ call.meshes[k].polygons =
                        <<readPolygons(BinaryReader(StatefulRecords),
                                       call.meshes[k].vertexBase,
                                       call.meshes[k].nbVertex).v>>
                  /\ Len(call.meshes[k].polygons[1]) = 1
            /\ call.meshes[k].afterModel = call.meshes[k].headerEnd
            /\ call.meshes[k].afterNode = call.meshes[k].saved
            /\ (k > 1 /\ StartsWith(StreamOf(k), StreamBare)) =>
                  /\ call.meshes[k].polygons # <<>>
                  /\ Len(call.meshes[k].polygons[1]) = 1
                  /\ DefaultDecoded(call.meshes[k].polygons[1])

\* a mesh whose stream ran into the unknown opcode after changing the texture,
\* the precision and the mirror flags was followed by a mesh with a bare stream
C15_MeshAfterUnknownOpcode ==
    /\ Done
    /\ Len(call.meshes) = 2
    /\ HitsUnknown(1)
    /\ call.meshes[1].polygons[1][1].texId = 1
    /\ call.meshes[1].polygons[1][1].strips[1][1].u.kind = "times 0.000015258789"
    /\ StartsWith(StreamOf(2), StreamBare)
    /\ call.meshes[2].polygons[1][1].texId = 0

\* C19: the base index recorded for a mesh is the number of vertices in the
\* global pool when the decode of that mesh began, also after a mesh that
\* declares more vertices than the buffer holds.
C19_BaseIsPoolLength ==
    Done => \A k \in DOMAIN call.meshes :
                call.meshes[k].vertexBase = call.meshes[k].poolBefore

\* a loader on which load has never been called, and what it holds
FreshLoader == [textureCache |-> <<>>, globalVertices |-> <<>>, vertexOffset |-> 0]
NothingHeld == [slots |-> {}, vertices |-> 0, vertexOffset |-> 0]

\* what a load call leaves and produces, as recorded in `call` and the fields
Produced ==
    [outcome |-> call.outcome, passes |-> call.passes, nodes |-> call.nodes,
     decoded |-> call.decoded, meshes |-> call.meshes, scene |-> call.scene,
     textureCache |-> textureCache, globalVertices |-> globalVertices,
     vertexOffset |-> vertexOffset]

StringField == [k \in 1..rdOp.arg |-> rd.buf[rdOp.pre + k]]

\* the characters of a field that precede its first zero byte
BeforeNul(field) ==
    LET nuls == {k \in DOMAIN field : field[k] = 0}
    IN  IF nuls = {} THEN field
        ELSE SubSeq(field, 1, (CHOOSE k \in nuls : \A j \in nuls : k <= j) - 1)

\* C16: readString(len) issued with at least len bytes remaining advances the
\* cursor by exactly len, wherever a zero byte occurs in the field, and returns
\* the characters that precede the first zero byte (all len when there is none).
C16_ReadStringFixedWidth ==
    (rdOp.op = "readString" /\ rdOp.pre >= 0 /\ size(rd) - rdOp.pre >= rdOp.arg) =>
        /\ rd.offset = rdOp.pre + rdOp.arg
        /\ rdOp.ret = BeforeNul(StringField)

\* a 3-byte field with a zero byte in the middle has been read
C16_NulInsideField ==
    /\ rdOp.op = "readString"
    /\ rdOp.arg = 3
    /\ rdOp.pre = 0
    /\ rd.buf = <<65, 0, 65>>
    /\ rd.offset = 3
    /\ rdOp.ret = <<65>>

(***************************************************************************)
(* PvrDecoder.untwiddle and PvrDecoder.decodeColor called on their own.    *)
(***************************************************************************)
\* Coordinates of a twiddled texture whose 16-bit width is up to 32768: the
\* small ones and the ones with a single higher bit set.
MaxCoord == 7
Coordinates == 0..MaxCoord \cup {Pow2(i) : i \in 3..14}

\* 16-bit pixel words: every value of the top four bits over a few low parts
MaxLow == 2
ColorLows == 0..MaxLow \cup {2048, 4095}
ColorWords == {h * 4096 + l : h \in 0..15, l \in ColorLows}

\* the calls to make: the method and its arguments, ret = <<>> until it returned
PixelCalls ==
    {[op |-> "untwiddle", x |-> x, y |-> y, ret |-> <<>>] :
        x \in Coordinates, y \in Coordinates}
    \cup
    {[op |-> "decodeColor", v |-> v, format |-> format, ret |-> <<>>] :
        v \in ColorWords, format \in PixelFormats}

InitPixel ==
    /\ fn \in PixelCalls
    /\ LoaderFresh
    /\ ReaderIdle
    /\ PvrIdle

\* the pending call of fn returns res
FnReturn(res) ==
    /\ fn.ret = <<>>
    /\ fn' = [fn EXCEPT !.ret = <<res>>]
    /\ UNCHANGED <<rd, rdOp, pvrIn, pvrOut, textureCache, globalVertices,
                   vertexOffset, call>>

\* this.untwiddle(x, y)
Untwiddle == fn.op = "untwiddle" /\ FnReturn(untwiddle(fn.x, fn.y))

\* this.decodeColor(v, format)
DecodeColor == fn.op = "decodeColor" /\ FnReturn(decodeColor(fn.v, fn.format))

NextPixel == Untwiddle \/ DecodeColor

SpecPixel == InitPixel /\ [][NextPixel]_vars

\* C11: untwiddle(x, y) has bit i of x at position 2i+1 and bit i of y at
\* position 2i, for every bit i of a coordinate below a 16-bit width (so the
\* pair can be read back from the index and no two pairs share an index).
C11_UntwiddleInterleaves ==
    (fn.op = "untwiddle" /\ fn.ret # <<>>) =>
        \A i \in 0..14 : /\ Bit(fn.ret[1], 2 * i + 1) = Bit(fn.x, i)
                         /\ Bit(fn.ret[1], 2 * i) = Bit(fn.y, i)

\* C12: the alpha decodeColor returns is 255 for format 1 (565); for format 0
\* (1555) it is 255 when bit 15 of the word is set and 0 otherwise; for format
\* 2 (4444) it is the same for all words with the same top four bits, and the
\* sixteen values of the top four bits give sixteen different alphas.
C12_AlphaByFormat ==
    (fn.op = "decodeColor" /\ fn.ret # <<>>) =>
        /\ fn.format = 1 => fn.ret[1][4] = 255
        /\ fn.format = 0 => fn.ret[1][4] = (IF fn.v >= 32768 THEN 255 ELSE 0)
        /\ fn.format = 2 =>
              /\ \A l \in ColorLows :
                    decodeColor((fn.v \div 4096) * 4096 + l, 2)[4] = fn.ret[1][4]
              /\ Cardinality({decodeColor(h * 4096 + (fn.v % 4096), 2)[4] :
                                 h \in 0..15}) = 16

\* a 4444 word with a non-zero low part and a top nibble of 15 has been decoded
C12_GradientAlphaDecoded ==
    /\ fn.op = "decodeColor"
    /\ fn.ret # <<>>
    /\ fn.format = 2
    /\ fn.v = 15 * 4096 + 1
    /\ fn.ret[1][4] = 240

\* C13: decoding 'PVRT' + length + P gives the same width, height, pixel buffer
\* and alpha classification as decoding the payload P alone, on the raw paths
\* and on the VQ path.
C13_WrapperIsTransparent ==
    (pvrOut # <<>> /\ pvrIn.whole /\ pvrIn.wrapped) =>
        pvrOut[1] = decode(PvrPayload(pvrIn.hdr, pvrIn.words))

\* the same for VQ data only, where the pixel data is read from the cursor
C13_WrapperIsTransparentVQ ==
    (pvrOut # <<>> /\ pvrIn.whole /\ pvrIn.wrapped /\ pvrIn.hdr.dataFormat = 3) =>
        pvrOut[1] = decode(PvrPayload(pvrIn.hdr, pvrIn.words))

(***************************************************************************)
(* One strip entry of a polygon stream decoded on its own.                 *)
(***************************************************************************)
MaxIdx == 3
MaxBase == 3

\* the stream state a strip group is decoded in when no record changed it
DefaultStream ==
    [isUVH |-> FALSE, uvSize |-> 1024, uMirror |-> FALSE, vMirror |-> FALSE]

\* the bytes of one entry: index, texU and texV if hasUV, b g r a if hasColor
EntryBytes(rawIdx, hasUV, hasColor) ==
    I16LE(rawIdx) \o (IF hasUV THEN I16LE(512) \o I16LE(-256) ELSE <<>>)
                  \o (IF hasColor THEN <<1, 2, 3, 4>> ELSE <<>>)

\* the entries to decode: raw index, the mesh's base index and vertex count,
\* whether the group's type has UVs and colours
StripCalls ==
    {[op |-> "stripEntry", rawIdx |-> rawIdx, vertexBase |-> vertexBase,
      nbVertex |-> nbVertex, hasUV |-> hasUV, hasColor |-> hasColor, ret |-> <<>>] :
        rawIdx \in (-MaxIdx)..MaxIdx, vertexBase \in 0..MaxBase,
        nbVertex \in 0..MaxIdx, hasUV \in BOOLEAN, hasColor \in BOOLEAN}

InitStrip ==
    /\ fn \in StripCalls
    /\ LoaderFresh
    /\ ReaderIdle
    /\ PvrIdle

\* the body of the entry loop of readPolygons, for a mesh of nbVertex vertices
\* whose base index is vertexBase
StripEntry ==
    /\ fn.op = "stripEntry"
    /\ FnReturn(stripEntry(BinaryReader(EntryBytes(fn.rawIdx, fn.hasUV, fn.hasColor)),
                           DefaultStream, fn.hasUV, fn.hasColor,
                           fn.vertexBase, fn.nbVertex))

NextStrip == StripEntry

SpecStrip == InitStrip /\ [][NextStrip]_vars

\* C14: a strip entry whose raw index r is read with base index B in a mesh of
\* N vertices resolves to B + r when r >= 0 and to B + N + r when r < 0; the
\* raw index -1 resolves to B + N - 1, the mesh's last vertex.
C14_IndexResolution ==
    (fn.op = "stripEntry" /\ fn.ret # <<>>) =>
        /\ fn.rawIdx >= 0 => fn.ret[1].v.idx = fn.vertexBase + fn.rawIdx
        /\ fn.rawIdx < 0 => fn.ret[1].v.idx = fn.vertexBase + fn.nbVertex + fn.rawIdx
        /\ fn.rawIdx = -1 => fn.ret[1].v.idx = fn.vertexBase + fn.nbVertex - 1

\* the raw index -1 has been read in a mesh that is not the first of the pool
C14_LastVertexOfLaterMesh ==
    /\ fn.op = "stripEntry"
    /\ fn.ret # <<>>
    /\ fn.rawIdx = -1
    /\ fn.vertexBase = 2
    /\ fn.nbVertex = 3
    /\ fn.ret[1].v.idx = 4
    /\ fn.ret[1].r.offset = Len(fn.ret[1].r.buf)

(***************************************************************************)
(* One child block of the texture directory decoded on its own.            *)
(***************************************************************************)
\* block tags: 'PVRT', 'JUNK', 'GBIX', 'TEXN', 'NAME'
BlockTags == {PVRT, <<74, 85, 78, 75>>, <<71, 66, 73, 88>>, TEXN, NAME}

\* block bodies: a length word and an image, an identifier and a wrapped image,
\* two identifiers, nothing
BlockBodies ==
    {U32LE(10) \o Tex3, U32LE(10) \o Tex1, IdA \o PvrWrapped(Tex4), IdA \o IdB, <<>>}

\* the blocks to decode, each with the state of the walk it is met in: the next
\* slot ordinal, whether that slot is bound already, and the pass's skipExisting
BlockCalls ==
    {[op |-> "dirBlock", block |-> Block(tag, body), texCounter |-> texCounter,
      cache |-> IF bound THEN MapSet(<<>>, texCounter, decode(Tex2)) ELSE <<>>,
      skipExisting |-> skipExisting, ret |-> <<>>] :
        tag \in BlockTags, body \in BlockBodies, texCounter \in 0..(MaxTex - 1),
        bound \in BOOLEAN, skipExisting \in BOOLEAN}

InitBlock ==
    /\ fn \in BlockCalls
    /\ LoaderFresh
    /\ ReaderIdle
    /\ PvrIdle

\* the walk's state behind the 8-byte header of the block of call c
BlockState(c) ==
    [r |-> readUInt32(readString(BinaryReader(c.block), 4).r).r,
     cache |-> c.cache, texCounter |-> c.texCounter,
     nameRequests |-> <<>>, assigned |-> <<>>, status |-> "ok"]

\* one iteration of the directory loop of readTextures from the marker test on
DirBlock ==
    /\ fn.op = "dirBlock"
    /\ FnReturn(dirBlock(BlockState(fn), readString(BinaryReader(fn.block), 4).v,
                         GetU32(fn.block, 4), GetU32(fn.block, 4), MaxTex,
                         fn.skipExisting))

NextBlock == DirBlock

SpecBlock == InitBlock /\ [][NextBlock]_vars

BlockTag(c) == SubSeq(c.block, 1, 4)

\* the image behind the second length word of a block (tag, size, length,
\* image); the length is 0 when the block ends before the word
RawImage(block) ==
    LET pvrLen == IF Len(block) >= 12 THEN GetU32(block, 8) ELSE 0
        start == Min(12, Len(block))
    IN  decode(Slice(block, start, start + pvrLen))

\* the block took the next slot ordinal and, unless the pass skips a slot that
\* is bound already, bound it to the image decoded directly from its body
TakenAsImage(c) ==
    /\ c.ret[1].texCounter = c.texCounter + 1
    /\ MapHas(c.ret[1].cache, c.texCounter)
    /\ c.ret[1].cache[c.texCounter] =
          (IF c.skipExisting /\ MapHas(c.cache, c.texCounter)
           THEN c.cache[c.texCounter] ELSE RawImage(c.block))

\* the block was passed over: no slot taken, nothing bound, nothing requested
PassedOver(c) ==
    /\ c.ret[1].texCounter = c.texCounter
    /\ c.ret[1].cache = c.cache
    /\ c.ret[1].nameRequests = <<>>
    /\ c.ret[1].assigned = <<>>

\* C20 as stated: a child block whose tag is neither 'TEXN' nor 'NAME' is
\* decoded directly as an image and takes the next slot ordinal, whatever its tag.
C20_AnyOtherTagIsImage ==
    (fn.op = "dirBlock" /\ fn.ret # <<>> /\ BlockTag(fn) \notin {TEXN, NAME}) =>
        TakenAsImage(fn)

\* C20: a child block whose tag is 'PVRT' is decoded directly as an image and
\* takes the next slot ordinal; a child block whose tag is none of 'TEXN',
\* 'NAME', 'PVRT' is passed over without taking a slot.  Either way the cursor
\* ends at the end of the block.
C20_OnlyPvrtTagIsImage ==
    (fn.op = "dirBlock" /\ fn.ret # <<>> /\ BlockTag(fn) \notin {TEXN, NAME}) =>
        /\ BlockTag(fn) = PVRT => TakenAsImage(fn)
        /\ BlockTag(fn) # PVRT => PassedOver(fn)
        /\ fn.ret[1].r.offset = Len(fn.block)
        /\ fn.ret[1].status = "ok"

\* a block tagged 'JUNK' that holds an image has been passed over
C20_UnknownTagPassedOver ==
    /\ fn.op = "dirBlock"
    /\ fn.ret # <<>>
    /\ fn.block = Block(<<74, 85, 78, 75>>, U32LE(10) \o Tex3)
    /\ fn.texCounter = 1
    /\ PassedOver(fn)

(***************************************************************************)
(* SpecStop: the first load of a model file whose directory holds a block   *)
(* of implausible declared size, with one node record behind the directory. *)
(***************************************************************************)
MaxBefore == 2

\* declared sizes that end the directory loop: 0, one below the 8-byte header,
\* one above the ceiling
StopSizes == {0, 7, SizeCeiling + 1}

\* the blocks in front of the stopping block and the block behind it
BlocksBefore == {TexnImage, NameTwo, PvrtRaw, JunkBlock}
BlocksAfter == {TexnImage, NameTwo}
BeforeLists == UNION {[1..n -> BlocksBefore] : n \in 0..MaxBefore}

\* a model file of a directory and one node record behind it
DirectoryNodeFile(nbTex, blocks) ==
    LET dir == Directory(nbTex, blocks)
    IN  Hrcm(12, 12 + Len(dir)) \o dir \o NodeBytes(0, 0, 0, 0)

\* the block that declares `declared` as its size, with one identifier as body
StopBlock(declared) == BlockSized(NAME, declared, IdC)

\* the file of the call c: the blocks before, the stopping block, the block after
StoppedFile(c) ==
    DirectoryNodeFile(c.nbTex, c.before \o <<StopBlock(c.declared), c.after>>)

StopCalls ==
    [op : {"stopped"}, nbTex : 0..(MaxTex + 1), before : BeforeLists,
     declared : StopSizes, after : BlocksAfter,
     pack : {NoPack, PackBuffer(PackAB)}]

InitStop ==
    /\ LoaderFresh
    /\ ReaderIdle
    /\ PvrIdle
    /\ fn \in StopCalls

\* loader.load(buffer, secondaryBuffer) with the file and the pack of the call
LoadStopped ==
    /\ call = NoCall
    /\ fn.op = "stopped"
    /\ LoadCall(StoppedFile(fn), fn.pack)

NextStop == LoadStopped

SpecStop == InitStop /\ [][NextStop]_vars

\* the load of the call has ended
Stopped == fn.op = "stopped" /\ call.phase = "done"

\* what the same directory without the stopping block and the block behind it
\* produces on an unused loader
BeforeOnly == load(DirectoryNodeFile(fn.nbTex, fn.before), fn.pack, FreshLoader)

\* C21: a directory block that declares a size below 8 or above 0x1000000 ends
\* directory parsing without an exception: load returns normally after one
\* readTextures call; the slots assigned and the textures bound are those of
\* the blocks in front of that block (nothing behind it is parsed); every
\* external reference queued is bound to the first record of the pack the scan
\* reaches with its identifier; and the node behind the directory is decoded.
C21_BadSizeStopsDirectory ==
    Stopped =>
        /\ call.outcome = "ok"
        /\ Len(call.passes) = 1
        /\ call.passes[1].status = "ok"
        /\ call.passes[1].assigned = BeforeOnly.passes[1].assigned
        /\ \A slot \in DOMAIN BeforeOnly.textureCache :
              MapHas(textureCache, slot)
                  /\ textureCache[slot] = BeforeOnly.textureCache[slot]
        /\ DOMAIN textureCache = DOMAIN BeforeOnly.textureCache
        /\ (call.passes[1].pack # <<>> =>
              PassResolves(call.passes[1], ScannedRecords(call.passes[1].pack[1], 0)))
        /\ Len(call.nodes) = 1
        /\ call.nodes[1].addr = 12 + Len(Directory(fn.nbTex,
                                     fn.before \o <<StopBlock(fn.declared), fn.after>>))

\* a block above the ceiling stood behind two external references that the pack
\* resolved and in front of an embedded image, with a slot left to assign: the
\* references are bound, the image is not, the node is decoded
C21_StoppedAboveCeiling ==
    /\ Stopped
    /\ fn.declared = SizeCeiling + 1
    /\ fn.before = <<NameTwo>>
    /\ fn.after = TexnImage
    /\ fn.nbTex = 3
    /\ fn.pack = PackBuffer(PackAB)
    /\ DOMAIN textureCache = {0, 1}
    /\ textureCache[0] = decode(Tex1)
    /\ textureCache[1] = decode(Tex2)
    /\ Len(call.nodes) = 1

(***************************************************************************)
(* SpecRecord: readPolygons on a stream of one record, the end marker and   *)
(* two bytes of padding.                                                    *)
(***************************************************************************)
MaxAttr == 3
MaxStrips == 2
MaxStripLen == 2

\* the record types readPolygons knows, the end marker aside
NullTypes == {0, 65535}
AttributeTypes == 2..7
WordTypes == {8, 9, 10, 11}
LongTypes == {14, 15}
StripTypes == 16..31

\* the strip group types whose entries hold UVs, and colours
UVTypes == {17, 20, 25, 28}
ColorTypes == {18, 20, 26, 28}

\* the signed strip lengths of a group: up to MaxStrips strips
StripLens ==
    UNION {[1..n -> (-MaxStripLen)..MaxStripLen] : n \in 0..MaxStrips}

\* one strip: its signed length and |length| entries with raw index 0
StripBytes(len, type) ==
    I16LE(len) \o Concat([k \in 1..Abs(len) |->
                            EntryBytes(0, type \in UVTypes, type \in ColorTypes)])

\* the bytes of the record of call c
RecordBytes(c) ==
    U16LE(c.type)
        \o (IF c.type \in AttributeTypes
            THEN U16LE(c.attr) \o [k \in 1..c.attr |-> 1]
            ELSE IF c.type \in WordTypes THEN U16LE(3)
            ELSE IF c.type \in LongTypes THEN [k \in 1..10 |-> k]
            ELSE IF c.type \in StripTypes
                 THEN U16LE(0) \o U16LE(Len(c.lens))
                        \o Concat([i \in 1..Len(c.lens) |-> StripBytes(c.lens[i], c.type)])
            ELSE <<>>)

\* the stream: the record, the end marker 0x8000, two bytes of padding
RecordStream(c) == RecordBytes(c) \o U16LE(32768) \o <<0, 0>>

RecordCalls ==
    {[op |-> "readPolygons", type |-> t, attr |-> 0, lens |-> <<>>, ret |-> <<>>] :
        t \in NullTypes \cup WordTypes \cup LongTypes}
    \cup {[op |-> "readPolygons", type |-> t, attr |-> a, lens |-> <<>>, ret |-> <<>>] :
            t \in AttributeTypes, a \in 0..MaxAttr}
    \cup {[op |-> "readPolygons", type |-> t, attr |-> 0, lens |-> l, ret |-> <<>>] :
            t \in StripTypes, l \in StripLens}

InitRecord ==
    /\ fn \in RecordCalls
    /\ LoaderFresh
    /\ ReaderIdle
    /\ PvrIdle

\* this.readPolygons(reader, 0, 1) with the reader at the start of the stream
ReadPolygons ==
    /\ fn.op = "readPolygons"
    /\ FnReturn(readPolygons(BinaryReader(RecordStream(fn)), 0, 1))

NextRecord == ReadPolygons

SpecRecord == InitRecord /\ [][NextRecord]_vars

\* the sum of 2 + |L| * entry over the strip lengths L from strip i on
RECURSIVE StripsSize(_, _, _)
StripsSize(lens, i, entry) ==
    IF i > Len(lens) THEN 0
    ELSE 2 + Abs(lens[i]) * entry + StripsSize(lens, i + 1, entry)

\* the number of bytes the record of call c is said to consume
RecordSize(c) ==
    IF c.type \in NullTypes THEN 2
    ELSE IF c.type \in AttributeTypes THEN 4 + c.attr
    ELSE IF c.type \in WordTypes THEN 4
    ELSE IF c.type \in LongTypes THEN 12
    ELSE 6 + StripsSize(c.lens, 1,
                        2 + 4 * (IF c.type \in {17, 20, 25, 28} THEN 1 ELSE 0)
                          + 4 * (IF c.type \in {18, 20, 26, 28} THEN 1 ELSE 0))

\* readPolygons has returned from a stream of one record
RecordRead == fn.op = "readPolygons" /\ fn.ret # <<>>

MaxStream == 3

\* the records a stream is made of: texture selection 1 or 2, a strip group of one
\* strip, the null word, a UV size record
RecordKinds == {"select 1", "select 2", "group", "null", "size"}

RecordOf(kind) ==
    IF kind = "select 1" THEN U16LE(9) \o U16LE(1)
    ELSE IF kind = "select 2" THEN U16LE(9) \o U16LE(2)
    ELSE IF kind = "group" THEN Group17(<<0, 0, 0>>)
    ELSE IF kind = "null" THEN U16LE(0)
    ELSE U16LE(11) \o U16LE(512)

\* the stream of the records `kinds`, closed by the end marker
StreamOfKinds(kinds) ==
    Concat([i \in 1..Len(kinds) |-> RecordOf(kinds[i])]) \o U16LE(32768)

\* the streams of the first mesh and of the second
FirstStreams == UNION {[1..n -> RecordKinds] : n \in 0..MaxStream}
SecondStreams == {<<"group">>, <<"group", "select 2", "group">>, <<"select 2", "group">>}

SelectCalls == [op : {"select"}, first : FirstStreams, second : SecondStreams]

InitSelect ==
    /\ LoaderFresh
    /\ ReaderIdle
    /\ PvrIdle
    /\ fn \in SelectCalls

\* loader.load(buffer, null) with the file of the two meshes, each of one vertex
LoadSelected ==
    /\ call = NoCall
    /\ fn.op = "select"
    /\ LoadCall(MeshFile(<<1, 1>>,
                         <<StreamOfKinds(fn.first), StreamOfKinds(fn.second)>>, 1),
                NoPack)

NextSelect == LoadSelected

SpecSelect == InitSelect /\ [][NextSelect]_vars

\* the slots of the groups among the records from record i on, `selected` being
\* the value of the last texture selection before record i (0 if none)
RECURSIVE SlotsFrom(_, _, _)
SlotsFrom(kinds, i, selected) ==
    IF i > Len(kinds) THEN <<>>
    ELSE IF kinds[i] = "select 1" THEN SlotsFrom(kinds, i + 1, 1)
    ELSE IF kinds[i] = "select 2" THEN SlotsFrom(kinds, i + 1, 2)
    ELSE IF kinds[i] = "group" THEN <<selected>> \o SlotsFrom(kinds, i + 1, selected)
    ELSE SlotsFrom(kinds, i + 1, selected)

\* the texture slots of the strip groups returned for a mesh, in order
SlotsOf(mesh) ==
    IF mesh.polygons = <<>> THEN <<>>
    ELSE [p \in DOMAIN mesh.polygons[1] |-> mesh.polygons[1][p].texId]

Selected == fn.op = "select" /\ call.phase = "done"

\* C23: every strip group returned for a mesh carries the value of the last
\* texture selection record before it in that mesh's stream, 0 if there is
\* none; the selections of the first mesh's stream have no effect on the
\* groups of the second mesh.
C23_SlotIsLastSelection ==
    Selected =>
        /\ call.outcome = "ok"
        /\ Len(call.meshes) = 2
        /\ SlotsOf(call.meshes[1]) = SlotsFrom(fn.first, 1, 0)
        /\ SlotsOf(call.meshes[2]) = SlotsFrom(fn.second, 1, 0)

\* the first mesh selected texture 1, emitted a group and selected texture 2;
\* the second mesh emitted a group, selected texture 2 and emitted another
C23_SelectionEndsWithMesh ==
    /\ Selected
    /\ fn.first = <<"select 1", "group", "select 2">>
    /\ fn.second = <<"group", "select 2", "group">>
    /\ SlotsOf(call.meshes[1]) = <<1>>
    /\ SlotsOf(call.meshes[2]) = <<0, 2>>

(***************************************************************************)
(* SpecTriangles: the geometry loop of createMeshFromModel on a texture     *)
(* group of one strip.                                                      *)
(***************************************************************************)
MaxEntries == 4
MaxPool == 2

\* the global vertex pool of `pool` vertices, each as readVertex returns it
PoolOf(pool) ==
    [j \in 1..pool |-> readVertex(Concat([i \in 1..6 |-> <<j, 0, 128, 63>>]), 0)]

\* the resolved indices of the entries of a strip: below the pool (-1), in the
\* pool, or behind its end
EntryIndices == UNION {[1..n -> (-1)..MaxPool] : n \in 0..MaxEntries}

\* the strip whose entry k has the resolved index idxs[k]; its u is k / 1024,
\* or 0 in every entry when `same`
StripOf(idxs, same) ==
    [k \in 1..Len(idxs) |->
        [idx |-> idxs[k],
         u |-> [kind |-> "ratio", n |-> IF same THEN 0 ELSE k, d |-> 1024],
         v |-> ZeroUV,
         color |-> <<255, 255, 255, 255>>]]

TriangleCalls ==
    [op : {"triangles"}, idxs : EntryIndices, same : BOOLEAN, pool : 0..MaxPool,
     ret : {<<>>}]

InitTriangles ==
    /\ fn \in TriangleCalls
    /\ LoaderFresh
    /\ ReaderIdle
    /\ PvrIdle

\* the loops of lines 369-398 for one texture group that holds one strip
EmitTriangles ==
    /\ fn.op = "triangles"
    /\ FnReturn(groupLoop([keys |-> <<>>, vertices |-> <<>>, indices |-> <<>>],
                          <<StripOf(fn.idxs, fn.same)>>, 1, PoolOf(fn.pool)))

NextTriangles == EmitTriangles

SpecTriangles == InitTriangles /\ [][NextTriangles]_vars

TrianglesEmitted == fn.op = "triangles" /\ fn.ret # <<>>

\* entry k of the strip has a vertex in the pool
Resolves(k) == fn.idxs[k] >= 0 /\ fn.idxs[k] < fn.pool

\* output index `index` stands for entry k of the strip: the output vertex has
\* the pool vertex, the UVs and the colour of the entry
StandsFor(index, k) ==
    /\ Resolves(k)
    /\ index + 1 \in DOMAIN fn.ret[1].vertices
    /\ fn.ret[1].vertices[index + 1] =
          [vertex |-> PoolOf(fn.pool)[fn.idxs[k] + 1],
           uv |-> <<StripOf(fn.idxs, fn.same)[k].u, StripOf(fn.idxs, fn.same)[k].v>>,
           color |-> StripOf(fn.idxs, fn.same)[k].color]

\* the strip of n entries gave n - 2 triangles (none for n < 2), triangle i made
\* of entries i, i+1, i+2 in this order for even i, of i, i+2, i+1 for odd i
ConsecutiveTriangles ==
    LET n == Len(fn.idxs)
        indices == fn.ret[1].indices
    IN  /\ Len(indices) = 3 * Max(0, n - 2)
        /\ \A i \in 0..(n - 3) :
              /\ StandsFor(indices[3 * i + 1], i + 1)
              /\ StandsFor(indices[3 * i + 2], IF i % 2 = 0 THEN i + 2 ELSE i + 3)
              /\ StandsFor(indices[3 * i + 3], IF i % 2 = 0 THEN i + 3 ELSE i + 2)

\* C24: a strip of n entries yields exactly max(0, n - 2) triangles, triangle i
\* built from entries i, i+1, i+2 and emitted as (a, b, c) for even i and as
\* (a, c, b) for odd i.
C24_TrianglesFromConsecutiveEntries == TrianglesEmitted => ConsecutiveTriangles

\* the same for the strips all of whose entries have a vertex in the pool
C24_TrianglesWhenAllResolve ==
    (TrianglesEmitted /\ \A k \in DOMAIN fn.idxs : Resolves(k)) => ConsecutiveTriangles

\* the positions of the entries that have a vertex in the pool, in strip order
Kept == SelectSeq([k \in 1..Len(fn.idxs) |-> k], Resolves)

\* C24 (amended): the entries of a strip whose resolved index has no vertex in
\* the pool are left out; the m entries that remain yield exactly max(0, m - 2)
\* triangles, triangle i built from the remaining entries i, i+1, i+2 and
\* emitted as (a, b, c) for even i and as (a, c, b) for odd i.
C24_TrianglesFromKeptEntries ==
    TrianglesEmitted =>
        LET m == Len(Kept)
            indices == fn.ret[1].indices
        IN  /\ Len(indices) = 3 * Max(0, m - 2)
            /\ \A i \in 0..(m - 3) :
                  /\ StandsFor(indices[3 * i + 1], Kept[i + 1])
                  /\ StandsFor(indices[3 * i + 2],
                               Kept[IF i % 2 = 0 THEN i + 2 ELSE i + 3])
                  /\ StandsFor(indices[3 * i + 3],
                               Kept[IF i % 2 = 0 THEN i + 3 ELSE i + 2])

\* a strip of four entries whose second entry points behind the pool: one
\* triangle, made of the first, third and fourth entry
C24_EntryLeftOut ==
    /\ TrianglesEmitted
    /\ fn.idxs = <<0, 2, 1, 0>>
    /\ fn.pool = 2
    /\ ~fn.same
    /\ fn.ret[1].indices = <<0, 1, 2>>
    /\ StandsFor(1, 3)

(***************************************************************************)
(* SpecWalk: the load of a model file of up to MaxWalk node records whose   *)
(* child and sibling offsets form trees, shared subtrees and cycles.        *)
(***************************************************************************)
MaxWalk == 3

\* where the child offset of node i points: nowhere, at the node itself, at the
\* next record (the end of the file for the last node)
ChildChoices == {"none", "self", "next"}
ChildTarget(i, choice) ==
    IF choice = "none" THEN 0
    ELSE IF choice = "self" THEN NodeAddr(i)
    ELSE NodeAddr(i + 1)

\* where the sibling offset of node i points: nowhere, at the first node, at the
\* next record, at the record behind it, far behind the end of the file
SiblingChoices == {"none", "first", "next", "second", "beyond"}
SiblingTarget(i, choice) ==
    IF choice = "none" THEN 0
    ELSE IF choice = "first" THEN NodeAddr(1)
    ELSE IF choice = "next" THEN NodeAddr(i + 1)
    ELSE IF choice = "second" THEN NodeAddr(i + 2)
    ELSE 100000

\* the child and sibling offsets of the n nodes of call c
WalkLinks(c) ==
    [i \in 1..c.n |-> <<ChildTarget(i, c.links[i][1]), SiblingTarget(i, c.links[i][2])>>]

WalkCalls ==
    UNION {[op : {"walk"}, n : {n}, links : [1..n -> ChildChoices \X SiblingChoices]] :
              n \in 1..MaxWalk}

InitWalk ==
    /\ LoaderFresh
    /\ ReaderIdle
    /\ PvrIdle
    /\ fn \in WalkCalls

\* loader.load(buffer, null) with the file of the n node records
LoadWalk ==
    /\ call = NoCall
    /\ fn.op = "walk"
    /\ LoadCall(NodeFile(fn.n, WalkLinks(fn), FALSE, FALSE), NoPack)

NextWalk == LoadWalk

SpecWalk == InitWalk /\ [][NextWalk]_vars

Walked == fn.op = "walk" /\ call.phase = "done"

\* the offsets a link may be followed to: not 0 and below the buffer size
Followable(buf, target) == target # 0 /\ target < Len(buf)

\* a 64-byte node record fits at offset a
HoldsNode(buf, a) == a + 64 <= Len(buf)

\* the nodes the child and sibling offsets of the node record at a lead to
LinkedFrom(buf, a) ==
    {t \in {GetU32(buf, a + 44), GetU32(buf, a + 48)} :
        Followable(buf, t) /\ HoldsNode(buf, t)}

\* the nodes that can be reached from the nodes R over links without passing
\* through a node of `avoid`
RECURSIVE ReachedFrom(_, _, _)
ReachedFrom(buf, R, avoid) ==
    LET more == (R \cup UNION {LinkedFrom(buf, a) : a \in R}) \ avoid
    IN  IF more = R THEN R ELSE ReachedFrom(buf, more, avoid)

\* the subtree behind the offset `target` for a traversal that has decoded the
\* nodes `seen`: empty if the offset is not followed or leads to no new node
Subtree(buf, target, seen) ==
    IF Followable(buf, target) /\ HoldsNode(buf, target) /\ target \notin seen
    THEN ReachedFrom(buf, {target}, seen)
    ELSE {}

\* the offsets of the node list from position a to position b
Offsets(a, b) == {call.nodes[q].addr : q \in a..b}

\* positions from + 1 .. from + |tree| of the node list hold exactly the nodes
\* of `tree`, the node at `target` first
HoldsSubtree(from, tree, target) ==
    /\ from + Cardinality(tree) <= Len(call.nodes)
    /\ Offsets(from + 1, from + Cardinality(tree)) = tree
    /\ tree # {} => call.nodes[from + 1].addr = target

\* C25: the node list is in pre-order.  The nodes of the child subtree of the
\* node at position p (those reached over its child offset first) stand right
\* behind it, the child first; the nodes of its sibling subtree stand right
\* behind those, the sibling first; an offset that is 0 or not below the buffer
\* size contributes no node, and every node of the list but the first is the
\* child or sibling of a node before it.
C25_NodeListPreOrder ==
    Walked =>
        /\ call.outcome = "ok"
        /\ \A p \in DOMAIN call.nodes :
              LET node == call.nodes[p]
                  children == Subtree(call.buffer, node.child, Offsets(1, p))
                  siblings == Subtree(call.buffer, node.sibling,
                                      Offsets(1, p) \cup children)
              IN  /\ HoldsSubtree(p, children, node.child)
                  /\ HoldsSubtree(p + Cardinality(children), siblings, node.sibling)
        /\ \A p \in DOMAIN call.nodes :
              p > 1 => \E o \in 1..(p - 1) :
                          call.nodes[p].addr \in LinkedFrom(call.buffer, call.nodes[o].addr)
        /\ Offsets(1, Len(call.nodes)) = Subtree(call.buffer, 12, {})

\* three nodes: the first has the second as its child and the third as its
\* sibling, the second has a sibling offset behind the end of the file and the
\* third names the first as its sibling
C25_ChildBeforeSibling ==
    /\ Walked
    /\ fn.n = 3
    /\ fn.links[1] = <<"next", "second">>
    /\ fn.links[2] = <<"none", "beyond">>
    /\ fn.links[3] = <<"none", "first">>
    /\ Len(call.nodes) = 3
    /\ call.nodes[2].addr = NodeAddr(2)
    /\ call.nodes[3].addr = NodeAddr(3)

(***************************************************************************)
(* SpecVQ: the decode of vector-quantized textures that hold a whole        *)
(* codebook.                                                                *)
(***************************************************************************)
MaxHalf == 2

\* colour i (0..3) of codebook entry k (0..255)
VQWord(k, i) == 4 * k + i + (IF i % 2 = 1 THEN 32768 ELSE 0)

\* the 2048 bytes of the codebook
VQCodebook ==
    [j \in 1..(8 * codebookSize) |->
        LET word == VQWord((j - 1) \div 8, ((j - 1) % 8) \div 2)
        IN  IF (j - 1) % 2 = 0 THEN word % 256 ELSE word \div 256]

\* an index body of n bytes: seed, seed + step, seed + 2 * step, ...
VQBody(n, seed, step) == [j \in 1..n |-> (seed + (j - 1) * step) % 256]

\* the texture of call c: header (data format 3), codebook, index body; the body
\* has one byte per block, or as many as the largest offset read needs
VQTexture(c) ==
    PvrHeader([colorFormat |-> c.format, dataFormat |-> 3,
               width |-> 2 * c.halfW, height |-> 2 * c.halfH])
        \o VQCodebook
        \o VQBody(IF c.spread THEN 4 * (c.halfW + c.halfH) * (c.halfW + c.halfH)
                  ELSE c.halfW * c.halfH,
                  c.seed, c.step)

VQCalls ==
    [op : {"decode"}, halfW : 0..MaxHalf, halfH : 0..MaxHalf, format : PixelFormats,
     wrapped : BOOLEAN, spread : BOOLEAN, seed : {0, 254}, step : {1, 85},
     ret : {<<>>}]

\* the buffer handed to the decoder
VQBuffer(c) == IF c.wrapped THEN PvrWrapped(VQTexture(c)) ELSE VQTexture(c)

InitVQ ==
    /\ fn \in VQCalls
    /\ LoaderFresh
    /\ ReaderIdle
    /\ PvrIdle

\* new PvrDecoder(buffer).decode(scene)
DecodeVQ ==
    /\ fn.op = "decode"
    /\ FnReturn(decode(VQBuffer(fn)))

NextVQ == DecodeVQ

SpecVQ == InitVQ /\ [][NextVQ]_vars

VQDecoded == fn.op = "decode" /\ fn.ret # <<>>

\* where the 8-byte header starts in the buffer, and where the index body starts
VQHeaderAt == IF fn.wrapped THEN 8 ELSE 0
VQBodyAt == VQHeaderAt + 8 + 8 * codebookSize

\* the four bytes of output pixel (x, y)
PixelAt(x, y) ==
    LET at == (y * fn.ret[1].width + x) * 4
    IN  <<fn.ret[1].data[at + 1], fn.ret[1].data[at + 2],
          fn.ret[1].data[at + 3], fn.ret[1].data[at + 4]>>

\* the colour expansion of colour `entry` of codebook[k], read from the buffer
CodebookColour(buf, k, entry) ==
    decodeColor(GetU16(buf, VQHeaderAt + 8 + 8 * k + 2 * entry), fn.format)

\* the index byte of block (bx, by) is in the buffer
HasIndexByte(bx, by) == VQBodyAt + untwiddle(bx, by) < Len(VQBuffer(fn))

\* C26: in a vector-quantized texture of even width and height, output pixel
\* (2*bx+dx, 2*by+dy) is the colour expansion of colour dy*2+dx of codebook
\* entry k, the codebook being the 256 entries of four 16-bit colours behind the
\* header and k the byte at offset untwiddle(bx, by) of the index body behind
\* the codebook (for the blocks whose index byte is in the buffer).
C26_VQPixelFromCodebook ==
    VQDecoded =>
        /\ fn.ret[1].width = 2 * fn.halfW
        /\ fn.ret[1].height = 2 * fn.halfH
        /\ Len(fn.ret[1].data) = 16 * fn.halfW * fn.halfH
        /\ \A bx \in 0..(fn.halfW - 1), by \in 0..(fn.halfH - 1) :
              HasIndexByte(bx, by) =>
                  \A dx \in {0, 1}, dy \in {0, 1} :
                      PixelAt(2 * bx + dx, 2 * by + dy) =
                          CodebookColour(VQBuffer(fn),
                                         GetU8(VQBuffer(fn), VQBodyAt + untwiddle(bx, by)),
                                         dy * 2 + dx)

\* a 4x4 texture in 565 whose index bytes are 254, 255, 0, 1: block (1, 0)
\* reads the byte at offset 2, entry 0, and its pixel (3, 0) is colour 1 of it
C26_BlockFromTwiddledByte ==
    /\ VQDecoded
    /\ fn.halfW = 2 /\ fn.halfH = 2
    /\ fn.format = 1
    /\ ~fn.wrapped /\ ~fn.spread
    /\ fn.seed = 254 /\ fn.step = 1
    /\ PixelAt(3, 0) = decodeColor(VQWord(0, 1), 1)
    /\ PixelAt(0, 1) = decodeColor(VQWord(254, 2), 1)

(***************************************************************************)
(* SpecColour: decodeColor on the 16-bit words with at most MaxBitsSet bits *)
(* set or at most MaxBitsSet bits clear, for the three known pixel formats  *)
(* and for others.                                                          *)
(***************************************************************************)
MaxBitsSet == 2

\* the sum of 2^i over the bit positions i of S
RECURSIVE WordOfBits(_)
WordOfBits(S) ==
    IF S = {} THEN 0
    ELSE LET i == CHOOSE b \in S : TRUE IN Pow2(i) + WordOfBits(S \ {i})

SparseWords == {WordOfBits(S) : S \in {T \in SUBSET (0..15) : Cardinality(T) <= MaxBitsSet}}
ColourWords == SparseWords \cup {65535 - w : w \in SparseWords}

\* the format byte of the header: 1555, 565, 4444 and values without a decoder
ColourFormats == {0, 1, 2, 3, 7, 255}

ColourCalls ==
    [op : {"decodeColor"}, v : ColourWords, format : ColourFormats, ret : {<<>>}]

InitColour ==
    /\ fn \in ColourCalls
    /\ LoaderFresh
    /\ ReaderIdle
    /\ PvrIdle

NextColour == DecodeColor

SpecColour == InitColour /\ [][NextColour]_vars

\* the value of bits hi..lo of v, bit lo counting 1
RECURSIVE BitField(_, _, _)
BitField(v, hi, lo) ==
    IF hi < lo THEN 0 ELSE Bit(v, hi) * Pow2(hi - lo) + BitField(v, hi - 1, lo)

\* C27: decodeColor returns, for format 0, R/G/B = bits 14-10 / 9-5 / 4-0, each
\* shifted left by 3; for format 1, R = bits 15-11 shifted by 3, G = bits 10-5
\* shifted by 2, B = bits 4-0 shifted by 3; for format 2, A/R/G/B = the four
\* nibbles from the top, each shifted left by 4; for any other format
\* [255, 255, 255, 255] whatever the word.
C27_ChannelsByFormat ==
    (fn.op = "decodeColor" /\ fn.ret # <<>>) =>
        /\ fn.format = 0 =>
              /\ fn.ret[1][1] = BitField(fn.v, 14, 10) * 8
              /\ fn.ret[1][2] = BitField(fn.v, 9, 5) * 8
              /\ fn.ret[1][3] = BitField(fn.v, 4, 0) * 8
        /\ fn.format = 1 =>
              /\ fn.ret[1][1] = BitField(fn.v, 15, 11) * 8
              /\ fn.ret[1][2] = BitField(fn.v, 10, 5) * 4
              /\ fn.ret[1][3] = BitField(fn.v, 4, 0) * 8
        /\ fn.format = 2 =>
              /\ fn.ret[1][4] = BitField(fn.v, 15, 12) * 16
              /\ fn.ret[1][1] = BitField(fn.v, 11, 8) * 16
              /\ fn.ret[1][2] = BitField(fn.v, 7, 4) * 16
              /\ fn.ret[1][3] = BitField(fn.v, 3, 0) * 16
        /\ fn.format \notin {0, 1, 2} => fn.ret[1] = <<255, 255, 255, 255>>
        /\ Len(fn.ret[1]) = 4

\* the 565 word with bits 11 and 5 set was decoded: the lowest red and green
C27_LowestRedAndGreen ==
    /\ fn.op = "decodeColor"
    /\ fn.ret # <<>>
    /\ fn.format = 1
    /\ fn.v = 2048 + 32
    /\ fn.ret[1] = <<8, 4, 0, 255>>

(***************************************************************************)
(* SpecEnd: the loop of readPolygons taken one iteration at a time, on      *)
(* streams of a few records and on streams that open with as many null      *)
(* words as the loop has iterations.                                        *)
(***************************************************************************)
MaxEnd == 3
MaxPad == 3

\* the records of the short streams: a strip group of one strip, a null word, the
\* end marker, a word that is no record type (0x000C), an attribute block whose
\* two data bytes read as 0x8000
EndKinds == {"group", "null", "marker", "unknown", "attr"}

EndRecordOf(kind) ==
    IF kind = "group" THEN Group17(<<0, 0, 0>>)
    ELSE IF kind = "null" THEN U16LE(0)
    ELSE IF kind = "marker" THEN U16LE(32768)
    ELSE IF kind = "unknown" THEN U16LE(12)
    ELSE U16LE(2) \o U16LE(2) \o U16LE(32768)

\* `pad` bytes behind the records: the start of a strip group
Padding(pad) == SubSeq(<<17, 0, 0, 0, 0, 0>>, 1, pad)

\* as many null words as the loop has iterations, less `less`, then a strip
\* group, the end marker and padding
NullsThenGroup(less) ==
    [i \in 1..(2 * (IterationCeiling - less)) |-> 0]
        \o Group17(<<0, 0, 0>>) \o U16LE(32768) \o <<0, 0>>
AllNulls == NullsThenGroup(0)
AllNullsButOne == NullsThenGroup(1)

\* the bytes of the stream s
EndStream(s) ==
    IF s.long = 0 THEN AllNulls
    ELSE IF s.long = 1 THEN AllNullsButOne
    ELSE Concat([i \in 1..Len(s.kinds) |-> EndRecordOf(s.kinds[i])]) \o Padding(s.pad)

EndStreams ==
    [long : {2}, kinds : UNION {[1..n -> EndKinds] : n \in 0..MaxEnd}, pad : 0..MaxPad]
        \cup [long : {0, 1}, kinds : {<<>>}, pad : {0}]

\* the locals of readPolygons at its entry (lines 213-220), the reader at offset 0
EndCalls ==
    [op : {"polygons"}, stream : EndStreams, phase : {"loop"}, last : {<<>>},
     offset : {0}, polygons : {<<>>}, currentTexIdx : {0}, isUVH : {FALSE},
     uvSize : {1024}, uMirror : {FALSE}, vMirror : {FALSE}, iterations : {0}]

InitEnd ==
    /\ fn \in EndCalls
    /\ LoaderFresh
    /\ ReaderIdle
    /\ PvrIdle

\* the decoder state of the call c
EndState(c) ==
    [r |-> [buf |-> EndStream(c.stream), offset |-> c.offset],
     polygons |-> c.polygons, currentTexIdx |-> c.currentTexIdx,
     isUVH |-> c.isUVH, uvSize |-> c.uvSize, uMirror |-> c.uMirror,
     vMirror |-> c.vMirror, iterations |-> c.iterations]

\* the loop condition: reader.offset < reader.size - 2 && iterations < 10000
LoopGoesOn(ps) == ps.r.offset < size(ps.r) - 2 /\ ps.iterations < IterationCeiling

\* the call after an iteration that read the type `type` and left `step`
Iterated(c, type, step) ==
    [c EXCEPT !.phase = IF step[2] THEN "loop" ELSE "done",
              !.last = <<type>>,
              !.offset = step[1].r.offset,
              !.polygons = step[1].polygons,
              !.currentTexIdx = step[1].currentTexIdx,
              !.isUVH = step[1].isUVH,
              !.uvSize = step[1].uvSize,
              !.uMirror = step[1].uMirror,
              !.vMirror = step[1].vMirror,
              !.iterations = step[1].iterations]

\* one iteration of the while loop of readPolygons
PolygonIteration ==
    /\ fn.op = "polygons"
    /\ fn.phase = "loop"
    /\ LoopGoesOn(EndState(fn))
    /\ fn' = Iterated(fn, readUShort(EndState(fn).r).v,
                      polygonType(EndState(fn), readUShort(EndState(fn).r), 0, 1))
    /\ UNCHANGED <<rd, rdOp, pvrIn, pvrOut, textureCache, globalVertices,
                   vertexOffset, call>>

\* the loop condition fails: `return polygons`
PolygonExit ==
    /\ fn.op = "polygons"
    /\ fn.phase = "loop"
    /\ ~LoopGoesOn(EndState(fn))
    /\ fn' = [fn EXCEPT !.phase = "done"]
    /\ UNCHANGED <<rd, rdOp, pvrIn, pvrOut, textureCache, globalVertices,
                   vertexOffset, call>>

NextEnd == PolygonIteration \/ PolygonExit

SpecEnd == InitEnd /\ [][NextEnd]_vars

InLoop == fn.op = "polygons" /\ fn.phase = "loop"
LoopEnded == fn.op = "polygons" /\ fn.phase = "done"

\* readPolygons is synchronous code: once called, its loop keeps running.  This
\* is weak fairness of NextEnd, WF_vars(NextEnd), written out with InLoop for
\* ENABLED <<NextEnd>>_vars: in a state of InLoop exactly one of the guards
\* LoopGoesOn and ~LoopGoesOn holds, and the step taken raises fn.iterations
\* or sets fn.phase; outside InLoop neither action has a step.
SpecEndFair == SpecEnd /\ ([]<>(~InLoop) \/ []<><<NextEnd>>_vars)

\* the record types the loop goes on after
RecognizedTypes == {0, 65535} \cup 2..11 \cup {14, 15} \cup 16..31

\* the loop has ended for one of the four reasons: the word read last is the end
\* marker, or it is no record type, or fewer than 3 bytes remain, or 10000 records
\* have been read
EndedForReason ==
    \/ fn.last = <<32768>>
    \/ fn.last # <<>> /\ fn.last[1] \notin RecognizedTypes
    \/ Len(EndStream(fn.stream)) - fn.offset < 3
    \/ fn.iterations = IterationCeiling

\* what holds in every state of the loop
EndSafety ==
    /\ fn.op = "polygons" => fn.iterations <= IterationCeiling
    /\ LoopEnded => EndedForReason
    /\ InLoop => fn.last = <<>> \/ fn.last[1] \in RecognizedTypes
    /\ (LoopEnded /\ fn.stream.long = 2 /\ fn.stream.pad = 0) =>
          fn.polygons = readPolygons(BinaryReader(EndStream(fn.stream)), 0, 1).v

\* C28: the decoding of a polygon stream ends on every input; when it has
\* ended, the word read last is the end marker 0x8000 or no record type, or
\* fewer than 3 bytes remain, or 10000 records have been read; never more than
\* 10000 records are read, and once the end marker or an unrecognized word has
\* been read nothing more is decoded.
C28_StreamDecodingEnds ==
    /\ []EndSafety
    /\ [][LoopEnded => fn' = fn]_vars
    /\ <>LoopEnded

\* a stream of 10000 null words and a strip group: the loop has ended at the
\* ceiling in front of the group
C28_EndedAtCeiling ==
    /\ LoopEnded
    /\ fn.stream.long = 0
    /\ fn.iterations = IterationCeiling
    /\ fn.offset = 2 * IterationCeiling
    /\ fn.polygons = <<>>
    /\ fn.last = <<0>>


(***************************************************************************)
(* SpecParents: the load of a model file of up to MaxParents node records,  *)
(* each reached from the record before it, with a parent offset that names  *)
(* no node, the node itself, another node or no record at all.              *)
(***************************************************************************)
MaxParents == 3

\* how node i is reached from node i - 1: as its child or as its sibling
ReachChoices == {"child", "sibling"}

\* where the parent offset of node i points: nowhere, at the node itself, at the
\* first node, at the record before, at the record behind (the end of the file
\* for the last node), into the middle of the first record
ParentChoices == {"none", "self", "first", "previous", "next", "inside"}
ParentTarget(i, choice) ==
    IF choice = "none" THEN 0
    ELSE IF choice = "self" THEN NodeAddr(i)
    ELSE IF choice = "first" THEN NodeAddr(1)
    ELSE IF choice = "previous" THEN NodeAddr(IF i > 1 THEN i - 1 ELSE 1)
    ELSE IF choice = "next" THEN NodeAddr(i + 1)
    ELSE NodeAddr(1) + 4

\* the model file of call c: the header and the n node records, none with a mesh
ParentFile(c) ==
    Hrcm(0, 12)
        \o Concat([i \in 1..c.n |->
                     NodeBytes(0,
                               IF i < c.n /\ c.reach[i] = "child"
                               THEN NodeAddr(i + 1) ELSE 0,
                               IF i < c.n /\ c.reach[i] = "sibling"
                               THEN NodeAddr(i + 1) ELSE 0,
                               ParentTarget(i, c.parents[i]))])

ParentCalls ==
    UNION {[op : {"parents"}, n : {n}, reach : [1..n -> ReachChoices],
            parents : [1..n -> ParentChoices]] : n \in 1..MaxParents}

InitParents ==
    /\ LoaderFresh
    /\ ReaderIdle
    /\ PvrIdle
    /\ fn \in ParentCalls

\* loader.load(buffer, null) with the file of the n node records
LoadParents ==
    /\ call = NoCall
    /\ fn.op = "parents"
    /\ LoadCall(ParentFile(fn), NoPack)

NextParents == LoadParents

SpecParents == InitParents /\ [][NextParents]_vars

Parented == fn.op = "parents" /\ call.phase = "done"

\* the position in the node list of the node with the offset addr
ListedAt(addr) == CHOOSE k \in DOMAIN call.scene : call.nodes[k].addr = addr

\* following the parent links from the scene object of node k reaches the model
\* root within `steps` links
RECURSIVE ReachesRoot(_, _)
ReachesRoot(k, steps) ==
    IF call.scene[k][1].parent = <<>> THEN TRUE
    ELSE IF steps = 0 THEN FALSE
    ELSE ReachesRoot(ListedAt(call.scene[k][1].parent[1]), steps - 1)

\* C29: after load, whatever the parent offsets in the node records, following
\* the parent link from any node that has a scene object reaches the model
\* root in finitely many steps (within as many links as there are nodes), so
\* no node is its own ancestor.
C29_ParentLinksReachRoot ==
    Parented =>
        \A k \in DOMAIN call.scene :
            call.scene[k] # <<>> => ReachesRoot(k, Len(call.scene))

\* a parent link, where one is set, names a node of the list that has a scene
\* object, and it is the node the record's parent offset names
ParentLinksNameNodes ==
    Parented =>
        \A k \in DOMAIN call.scene :
            (call.scene[k] # <<>> /\ call.scene[k][1].parent # <<>>) =>
                /\ call.scene[k][1].parent[1] = call.nodes[k].parentAddr
                /\ \E o \in DOMAIN call.scene :
                      /\ call.nodes[o].addr = call.nodes[k].parentAddr
                      /\ call.scene[o] # <<>>

\* one node whose parent offset is its own offset: its scene object is its own
\* parent
SelfParented ==
    /\ Parented
    /\ fn.n = 1
    /\ fn.parents[1] = "self"
    /\ call.outcome = "ok"
    /\ call.scene[1][1].parent = <<12>>


(***************************************************************************)
(* SpecViewer: the viewer's requests loadScene and loadModelFromUrl         *)
(* (part_000:558-616, 697-760).  A request runs from one await to the next  *)
(* in one step; between two steps of a request any step of another request  *)
(* and the start of a new request may happen.  The viewer's state is held   *)
(* in fn:                                                                   *)
(*   currentLoadId, currentMeshes   the globals of lines 141-142            *)
(*   reqs[i]    the request whose loadId is i: its kind, the await it is     *)
(*              suspended at (pc), the number of files of its scene, the     *)
(*              file it is at, what loader.load returned to it, totalLoaded  *)
(*              and the return it left by                                    *)
(*   produced   the meshes returned by loader.load so far                    *)
(*   disposed   the meshes on which dispose() was called                     *)
(* A mesh is named by the request and the file it was decoded for.           *)
(***************************************************************************)
MaxRequests == 2

\* the numbers of model files a scene prefix may match
SceneSizes == {0, 1, 2}

NoRequest ==
    [kind |-> "none", pc |-> "idle", files |-> 0, file |-> 0,
     loaded |-> [threw |-> FALSE, meshes |-> <<>>], totalLoaded |-> 0, left |-> ""]

ViewerAtStart ==
    [op |-> "viewer", currentLoadId |-> 0, currentMeshes |-> <<>>,
     reqs |-> [i \in 1..MaxRequests |-> NoRequest],
     produced |-> {}, disposed |-> {}]

\* meshes.forEach(m => m.dispose())
disposeAll(v, meshes) ==
    [v EXCEPT !.disposed = @ \cup {meshes[k] : k \in DOMAIN meshes}]

\* loadId !== currentLoadId
stale(v, i) == i # v.currentLoadId

\* the request i returns
returns(v, i, by) == [v EXCEPT !.reqs[i].pc = "done", !.reqs[i].left = by]

\* const loadId = ++currentLoadId; currentMeshes.forEach(m => m.dispose());
\* currentMeshes = [] (lines 559-570, 698-702)
clearPrevious(v) ==
    [disposeAll(v, v.currentMeshes) EXCEPT !.currentLoadId = @ + 1,
                                           !.currentMeshes = <<>>]

\* the head of `for (const filename of filesToLoad)` with the next file, and
\* what follows the loop (lines 586-615)
nextFile(v, i) ==
    IF v.reqs[i].file >= v.reqs[i].files THEN returns(v, i, "completed")
    ELSE IF stale(v, i) THEN returns(v, i, "stale at loop head")
    ELSE [v EXCEPT !.reqs[i].file = @ + 1, !.reqs[i].pc = "fetch"]

\* loadScene up to its first await; without a file there is none
loadSceneStart(v, files) ==
    LET id == v.currentLoadId + 1
        v1 == [clearPrevious(v) EXCEPT
                  !.reqs[id] = [NoRequest EXCEPT !.kind = "scene", !.files = files]]
    IN  IF files = 0 THEN nextFile(v1, id)
        ELSE [v1 EXCEPT !.reqs[id].pc = "pack"]

\* loadModelFromUrl up to `await Promise.all([fetchAsset, getTexturePack])`
loadModelStart(v) ==
    LET id == v.currentLoadId + 1
    IN  [clearPrevious(v) EXCEPT
            !.reqs[id] = [NoRequest EXCEPT !.kind = "model", !.files = 1,
                                           !.file = 1, !.pc = "fetch"]]

\* loadScene behind `await getTexturePack(sampleFile)` (lines 583-588)
afterPack(v, i) ==
    IF stale(v, i) THEN returns(v, i, "stale after pack") ELSE nextFile(v, i)

\* behind the await of the fetch (lines 589-593, 722-731): a response that is
\* not ok is `continue` in loadScene and a throw into the catch block in
\* loadModelFromUrl
afterFetch(v, i, ok) ==
    IF stale(v, i) THEN returns(v, i, "stale after fetch")
    ELSE IF ok THEN [v EXCEPT !.reqs[i].pc = "buffer"]
    ELSE IF v.reqs[i].kind = "scene" THEN nextFile(v, i)
    ELSE returns(v, i, "failed")

\* behind `await response.arrayBuffer()` (lines 593-596, 731-734): the call of
\* loader.load, which throws or returns [modelRoot]
afterBuffer(v, i, threw) ==
    LET mesh == [by |-> i, file |-> v.reqs[i].file]
    IN  IF stale(v, i) THEN returns(v, i, "stale after buffer")
        ELSE IF threw
        THEN [v EXCEPT !.reqs[i].pc = "load",
                       !.reqs[i].loaded = [threw |-> TRUE, meshes |-> <<>>]]
        ELSE [v EXCEPT !.reqs[i].pc = "load",
                       !.reqs[i].loaded = [threw |-> FALSE, meshes |-> <<mesh>>],
                       !.produced = @ \cup {mesh}]

\* behind `await loader.load(...)` without the test of loadId
afterLoadUnchecked(v, i) ==
    LET r == v.reqs[i]
    IN  IF r.loaded.threw
        THEN IF r.kind = "scene" THEN nextFile(v, i) ELSE returns(v, i, "failed")
        ELSE IF r.kind = "scene"
        THEN nextFile([v EXCEPT !.currentMeshes = @ \o r.loaded.meshes,
                                !.reqs[i].totalLoaded = @ + 1], i)
        ELSE returns([v EXCEPT !.currentMeshes = r.loaded.meshes], i, "completed")

\* behind `await loader.load(...)` (lines 596-605, 734-741): a rejection goes to
\* the catch block; a stale request disposes what it was given; loadScene
\* pushes the meshes and loadModelFromUrl assigns them
afterLoad(v, i) ==
    LET r == v.reqs[i]
    IN  IF r.loaded.threw
        THEN IF r.kind = "scene" THEN nextFile(v, i) ELSE returns(v, i, "failed")
        ELSE IF stale(v, i)
        THEN returns(disposeAll(v, r.loaded.meshes), i, "disposed")
        ELSE IF r.kind = "scene"
        THEN nextFile([v EXCEPT !.currentMeshes = @ \o r.loaded.meshes,
                                !.reqs[i].totalLoaded = @ + 1], i)
        ELSE returns([v EXCEPT !.currentMeshes = r.loaded.meshes], i, "completed")

InitViewer ==
    /\ fn = ViewerAtStart
    /\ LoaderFresh
    /\ ReaderIdle
    /\ PvrIdle

ViewerStep(v) ==
    /\ fn' = v
    /\ UNCHANGED <<rd, rdOp, pvrIn, pvrOut, textureCache, globalVertices,
                   vertexOffset, call>>

\* a click on a scene button (or on the sky button): loadScene(prefix)
LoadScene ==
    /\ fn.op = "viewer"
    /\ fn.currentLoadId < MaxRequests
    /\ \E files \in SceneSizes : ViewerStep(loadSceneStart(fn, files))

\* a click on a model: loadModelFromUrl(file, li)
LoadModelFromUrl ==
    /\ fn.op = "viewer"
    /\ fn.currentLoadId < MaxRequests
    /\ ViewerStep(loadModelStart(fn))

\* the texture pack of request i has arrived
ResumePack ==
    /\ fn.op = "viewer"
    /\ \E i \in 1..MaxRequests :
          /\ fn.reqs[i].pc = "pack"
          /\ ViewerStep(afterPack(fn, i))

\* the response for the file of request i has arrived
ResumeFetch ==
    /\ fn.op = "viewer"
    /\ \E i \in 1..MaxRequests, ok \in BOOLEAN :
          /\ fn.reqs[i].pc = "fetch"
          /\ ViewerStep(afterFetch(fn, i, ok))

\* the bytes of the file of request i have arrived
ResumeBuffer ==
    /\ fn.op = "viewer"
    /\ \E i \in 1..MaxRequests, threw \in BOOLEAN :
          /\ fn.reqs[i].pc = "buffer"
          /\ ViewerStep(afterBuffer(fn, i, threw))

\* request i goes on behind its call of loader.load
ResumeLoad ==
    /\ fn.op = "viewer"
    /\ \E i \in 1..MaxRequests :
          /\ fn.reqs[i].pc = "load"
          /\ ViewerStep(afterLoad(fn, i))

NextViewer ==
    \/ LoadScene
    \/ LoadModelFromUrl
    \/ ResumePack
    \/ ResumeFetch
    \/ ResumeBuffer
    \/ ResumeLoad

SpecViewer == InitViewer /\ [][NextViewer]_vars

\* the meshes of a list
MeshesOf(meshes) == {meshes[k] : k \in DOMAIN meshes}

\* currentMeshes holds meshes of the request started last only, and none that
\* was disposed
CurrentMeshesAreLatest ==
    \A m \in MeshesOf(fn.currentMeshes) :
        m.by = fn.currentLoadId /\ m \notin fn.disposed

\* a mesh returned to a request that is no longer the latest has been disposed,
\* or the request is still suspended behind the call that returned it
OlderMeshesDisposed ==
    \A m \in fn.produced :
        m.by # fn.currentLoadId =>
            \/ m \in fn.disposed
            \/ /\ fn.reqs[m.by].pc = "load"
               /\ m \in MeshesOf(fn.reqs[m.by].loaded.meshes)

\* a step of a request started before the latest leaves currentMeshes alone
OlderLeavesCurrentMeshes ==
    \A i \in 1..MaxRequests :
        (i < fn.currentLoadId /\ fn'.reqs[i] # fn.reqs[i]) =>
            fn'.currentMeshes = fn.currentMeshes

\* C30: under any interleaving of loadScene and loadModelFromUrl requests,
\* currentMeshes only holds meshes produced by the request started last: once
\* a newer request has started, an older request neither adds to nor replaces
\* currentMeshes, and the meshes returned to it afterwards are disposed.
C30_CurrentMeshesOfLatestRequest ==
    /\ [](fn.op = "viewer" => CurrentMeshesAreLatest /\ OlderMeshesDisposed)
    /\ [][fn.op = "viewer" => OlderLeavesCurrentMeshes]_vars

\* the first request was overtaken while suspended behind loader.load and has
\* disposed its mesh; the second request shows its own
C30_OvertakenAfterLoad ==
    /\ fn.op = "viewer"
    /\ fn.currentLoadId = 2
    /\ fn.reqs[1].left = "disposed"
    /\ [by |-> 1, file |-> 1] \in fn.disposed
    /\ fn.currentMeshes = <<[by |-> 2, file |-> 1]>>

====
